---- MODULE Spec2Model ----
(***************************************************************************)
(* Model of tcpkgman's ADS layer (ads_dll.py, ads_interface.py) and of the *)
(* SSH bootstrap built on it (ads_ssh_key_manager.py, tcpkgman.py).        *)
(*                                                                         *)
(* One ADSInterface operation is a frame (op, pc, port, handle, cleanup,   *)
(* pend) that advances one DLL call at a time.  `cleanup` is the stack of  *)
(* finally-clauses entered so far; an exception or a return moves the      *)
(* frame to "unwind", which runs that stack from the innermost clause out. *)
(* The callers (copy_ssh_key, restart_openssh_server, the interactive      *)
(* bootstrap) start a frame and resume when it reaches "return".           *)
(***************************************************************************)
EXTENDS Integers, Sequences, FiniteSets, TLC

----------------------------------------------------------------------------
\* Bounds of the model

MaxPort == 2
MaxHandle == 2
MaxContentLen == 2
MaxKeyLen == 2
MaxTimeoutS == 3
MaxPid == 2
MaxComponents == 7
MaxRetries == 3

----------------------------------------------------------------------------
\* Program constants

SYSTEMSERVICE_PORT == 10000
SYSTEMSERVICE_NOSEEK == -1
SYSTEMSERVICE_FOPEN == 120
SYSTEMSERVICE_FREAD == 122
SYSTEMSERVICE_FWRITE == 123
SYSTEMSERVICE_FGETSTATUS == 134
SYSTEMSERVICE_STARTPROCESS == 500

FOPEN_READ == 1
FOPEN_WRITE == 2
FOPEN_PLUS == 8
FOPEN_BINARY == 16
FOPEN_ENSURE_DIR == 64
FOPEN_OVERWRITE == 256
FOPEN_PATH_GENERIC == 65536

ADSERR_NOERR == 0
DefaultMaxSize == 1048576
DefaultRestartTimeoutMs == 10000

AUTHORIZED_KEYS_PATH == "C:/ProgramData/ssh/administrators_authorized_keys"
PID_FILE_PATH == "C:/ProgramData/ssh/sshd.pid"

----------------------------------------------------------------------------
\* Text: a string is a sequence of characters

NUL == "NUL"
NL == "\n"
SP == " "
Whitespace == {SP, NL}

\* A missing file and a missing value, distinct from every text
Absent == <<"absent">>
None == <<"None">>

RECURSIVE StringsUpTo(_, _)
StringsUpTo(alphabet, n) ==
    IF n = 0 THEN {<<>>}
    ELSE LET shorter == StringsUpTo(alphabet, n - 1)
         IN  shorter \cup {Append(s, c) : s \in shorter, c \in alphabet}

Min(a, b) == IF a < b THEN a ELSE b

RECURSIVE LStrip(_)
LStrip(s) ==
    IF s # <<>> /\ Head(s) \in Whitespace THEN LStrip(Tail(s)) ELSE s

RECURSIVE RStrip(_)
RStrip(s) ==
    IF s # <<>> /\ s[Len(s)] \in Whitespace
    THEN RStrip(SubSeq(s, 1, Len(s) - 1)) ELSE s

Strip(s) == RStrip(LStrip(s))

RECURSIVE RStripNul(_)
RStripNul(s) ==
    IF s # <<>> /\ s[Len(s)] = NUL
    THEN RStripNul(SubSeq(s, 1, Len(s) - 1)) ELSE s

FirstNewline(s) ==
    IF \E i \in 1..Len(s) : s[i] = NL
    THEN CHOOSE i \in 1..Len(s) : s[i] = NL /\ \A j \in 1..(i - 1) : s[j] # NL
    ELSE 0

RECURSIVE SplitLines(_)
SplitLines(s) ==
    IF s = <<>> THEN <<>>
    ELSE LET i == FirstNewline(s)
         IN  IF i = 0 THEN <<s>>
             ELSE <<SubSeq(s, 1, i - 1)>> \o SplitLines(SubSeq(s, i + 1, Len(s)))

----------------------------------------------------------------------------
\* State

VARIABLES
    netId,      \* ADSInterface.ams_net_id, as its dot-separated integer components
    openPorts,  \* ports the ADS DLL currently has open
    authKeys,   \* content of the remote authorized-keys file, or Absent
    op,         \* the ADSInterface operation in progress, "none" when idle
    caller,     \* who started the operation
    args,       \* the operation's arguments
    pc,         \* position inside the operation
    port,       \* local `port` (0 before port_open returned)
    handle,     \* local `handle` (0 before the open was decoded)
    cleanup,    \* finally-clauses entered and not yet run, innermost first
    pend,       \* the return value or exception the operation is leaving with
    data,       \* text returned by read_file
    trace,      \* DLL calls made by the operation in progress
    \* copy_ssh_key
    localKey,   \* text of the local public key file, or Absent when none is found
    keyContent, \* local `key_content`
    existing,   \* local `existing_content`, None when the read raised
    kpc,        \* position inside copy_ssh_key
    kres,       \* how copy_ssh_key ended
    writeCalls, \* number of write_file calls made by copy_ssh_key
    written,    \* content passed to the last write_file call
    authKeys0,  \* the remote authorized-keys file before copy_ssh_key started
    \* restart_openssh_server
    timeoutMs,  \* argument timeout_ms
    rpc,        \* position inside restart_openssh_server / _poll_pid_change
    rres,       \* how restart_openssh_server ended
    rexit,      \* the step at which it ended
    oldPid,     \* local `old_pid`
    newPid,     \* local `new_pid`, the PID read last
    polls,      \* completed iterations of the polling loop
    sleeps,     \* number of time.sleep calls
    slept,      \* seconds slept in total
    pidReads,   \* number of _read_sshd_pid calls
    restarts,   \* number of run_command calls
    allSame,    \* every PID read since the restart command equalled old_pid
    sawAbsent,  \* some PID read since the restart command was absent
    \* _ssh_init_interactive
    bpc,        \* position inside _ssh_init_interactive
    bres,       \* how _ssh_init_interactive ended
    sshDir,     \* names of the key files in the local .ssh directory
    keygens,    \* number of ssh-keygen runs
    bootLog,    \* the steps _ssh_init_interactive started and how each ended
    \* AmsAddr.__init__ / AmsNetId.from_string
    idText,     \* argument net_id, a string
    apc,        \* position inside AmsAddr.__init__ / from_string
    idParts,    \* local `parts`, the integers parsed so far
    addrBytes,  \* the six bytes addr.b of the AmsNetId
    ares,       \* how the construction ended
    \* test_ssh_connection / check_ssh_connection
    sfn,        \* which of the two functions is running
    maxRetries, \* argument max_retries
    attempt,    \* loop variable `attempt`, 0 before the first iteration
    spc,        \* position inside the retry loop
    sres,       \* how the function ended
    sshLog,     \* the subprocess.run results and the sleeps made, in order
    sshSlept,   \* seconds slept in total
    \* Tcpkgman.run
    argRemote,  \* args.remote as parsed: the value of --remote, or Unset
    envRemote,  \* os.environ.get('TCPKG_REMOTE')
    argAdd,     \* args.remote_add: Unset, "" for the bare flag, or a name
    argRemove,  \* args.remote_remove
    argList,    \* args.remote_list
    argInit,    \* args.remote_ssh_init
    remaining,  \* the arguments argparse did not recognise: the TcPkg command
    cpc,        \* position inside run / _add_remote_interactive
    remote,     \* args.remote after the environment variable was consulted
    addName,    \* argument remote_name of _add_remote_interactive
    skipConf,   \* argument skip_confirmation of _add_remote_interactive
    addRet,     \* where run continues when _add_remote_interactive returns
    cliLog,     \* the calls run made and how each ended, in order
    exitCode,   \* exit code of the process, -1 while it runs
    cexc,       \* the exception that reached the except clauses of run
    \* a caller that calls copy_ssh_key again
    kcalls,     \* calls of copy_ssh_key that returned before the current one
    \* a second ADSInterface operation running next to the first
    opc,        \* its position
    oport,      \* its local `port`
    otrace      \* the DLL calls it made

opVars == <<netId, openPorts, authKeys, op, caller, args, pc, port,
            handle, cleanup, pend, data, trace>>

keyVars == <<localKey, keyContent, existing, kpc, kres, writeCalls, written,
             authKeys0>>

restartVars == <<timeoutMs, rpc, rres, rexit, oldPid, newPid, polls, sleeps, slept,
                 pidReads, restarts, allSame, sawAbsent>>

bootVars == <<bpc, bres, sshDir, keygens, bootLog>>

addrVars == <<idText, apc, idParts, addrBytes, ares>>

sshVars == <<sfn, maxRetries, attempt, spc, sres, sshLog, sshSlept>>

inputVars == <<argRemote, envRemote, argAdd, argRemove, argList, argInit, remaining>>

cliVars == <<inputVars, cpc, remote, addName, skipConf, addRet, cliLog, exitCode, cexc>>

sideVars == <<kcalls, opc, oport, otrace>>

auxVars == <<addrVars, sshVars, cliVars, sideVars>>

upperVars == <<keyVars, restartVars, bootVars, auxVars>>

vars == <<opVars, keyVars, restartVars, bootVars, auxVars>>

----------------------------------------------------------------------------
\* Values

Ports == 1..MaxPort
Handles == 1..MaxHandle
ErrCodes == {7, 1804, 1861}

GoodNetId == <<192, 168, 1, 100, 1, 1>>
ShortNetId == <<192, 168, 1>>
NetIds == {GoodNetId, ShortNetId}

RemoteChars == {"a", SP, NL}
RemoteContents == StringsUpTo(RemoteChars, MaxContentLen) \cup {<<"a", NUL>>}

Ops == {"check_connection", "read_file", "write_file", "file_exists", "run_command"}

NoPend == [kind |-> "none", type |-> "none", code |-> 0]
Ret(t) == [kind |-> "ret", type |-> t, code |-> 0]
Exc(t, c) == [kind |-> "exc", type |-> t, code |-> c]

\* One DLL call: `hdr` holds the packed integers of the payload, `payload`
\* its characters, `status` the code the DLL function returned; `live` tells
\* whether the port was open when the call was made
Event(call, group, offset, hdr, payload, status) ==
    [call |-> call, port |-> port, group |-> group, offset |-> offset,
     hdr |-> hdr, payload |-> payload, status |-> status,
     ok |-> status = ADSERR_NOERR, live |-> port \in openPorts]

NoArgs ==
    [path |-> "", content |-> <<>>, command |-> <<>>, working_dir |-> <<>>,
     timeout_ms |-> 0, hide_window |-> FALSE]
PathArgs(p) == [NoArgs EXCEPT !.path = p]
WriteArgs(p, c) == [NoArgs EXCEPT !.path = p, !.content = c]
CommandArgs(c, wd, t, h) ==
    [NoArgs EXCEPT !.command = c, !.working_dir = wd, !.timeout_ms = t,
                   !.hide_window = h]

ReadMode == FOPEN_READ + FOPEN_BINARY + FOPEN_PATH_GENERIC
WriteMode == FOPEN_WRITE + FOPEN_PLUS + FOPEN_BINARY + FOPEN_ENSURE_DIR
             + FOPEN_OVERWRITE + FOPEN_PATH_GENERIC

HasFlag(mode, flag) == (mode \div flag) % 2 = 1

ModeOf_alwaysWrite(o) == WriteMode
ModeOf(o) == IF o = "write_file" THEN WriteMode ELSE ReadMode

\* AmsNetId.from_string / AmsAddr.__init__: an empty string skips the parse
AmsAddrOk(n) == n = <<>> \/ Len(n) = 6

PushCleanup_outermostFirst(c, stack) == stack \o <<c>>

\* with-blocks and try/finally: the clause entered last runs first
PushCleanup(c, stack) == <<c>> \o stack

\* check_connection builds the address inside its try block,
\* _connect builds it before the try block starts
TryCoversAddr(o) == o = "check_connection"

FileHandleCleanup_noFinally(stack) == stack

\* _file_handle: the try/finally around the yield
FileHandleCleanup(stack) == PushCleanup("fclose", stack)

FirstStep(o) ==
    CASE o = "check_connection" -> "read_state"
      [] o = "read_file" -> "fopen"
      [] o = "write_file" -> "fopen"
      [] o = "file_exists" -> "fstatus"
      [] o = "run_command" -> "startproc"

----------------------------------------------------------------------------
\* Starting an operation

Begin(o, a, who) ==
    /\ op' = o
    /\ args' = a
    /\ caller' = who
    /\ pc' = "port_open"
    /\ port' = 0
    /\ handle' = 0
    /\ cleanup' = <<>>
    /\ pend' = NoPend
    /\ data' = <<>>
    /\ trace' = <<>>

Idle ==
    /\ op' = "none"
    /\ args' = NoArgs
    /\ caller' = "none"
    /\ pc' = "idle"
    /\ port' = 0
    /\ handle' = 0
    /\ cleanup' = <<>>
    /\ pend' = NoPend
    /\ data' = <<>>
    /\ trace' = <<>>

----------------------------------------------------------------------------
\* TcAdsDll.port_open, as called by check_connection and _connect

FreePorts_any(open) == Ports

\* TcAdsDll.port_open: AdsPortOpenEx hands out a port that is not open, or 0
FreePorts(open) == Ports \ open

PortOpen ==
    /\ pc = "port_open"
    /\ \/ \E p \in FreePorts(openPorts) :
            /\ port' = p
            /\ openPorts' = openPorts \cup {p}
            /\ trace' = Append(trace, [call |-> "port_open", port |-> p, group |-> 0,
                                       offset |-> 0, hdr |-> <<>>, payload |-> <<>>,
                                       status |-> ADSERR_NOERR, ok |-> TRUE,
                                       live |-> TRUE])
            /\ cleanup' = IF TryCoversAddr(op)
                          THEN PushCleanup("port_close", cleanup) ELSE cleanup
            /\ pc' = "addr"
            /\ UNCHANGED pend
       \/ /\ pend' = Exc("ADSError", 0)
          /\ pc' = "unwind"
          /\ UNCHANGED <<port, openPorts, trace, cleanup>>
    /\ UNCHANGED <<netId, authKeys, op, caller, args, handle, data>>
    /\ UNCHANGED upperVars

\* AmsAddr(self.ams_net_id, SYSTEMSERVICE_PORT)
MakeAddr ==
    /\ pc = "addr"
    /\ IF AmsAddrOk(netId)
       THEN /\ cleanup' = IF TryCoversAddr(op)
                          THEN cleanup ELSE PushCleanup("port_close", cleanup)
            /\ pc' = FirstStep(op)
            /\ UNCHANGED pend
       ELSE /\ pend' = Exc("ValueError", 0)
            /\ pc' = "unwind"
            /\ UNCHANGED cleanup
    /\ UNCHANGED <<netId, openPorts, authKeys, op, caller, args, port,
                   handle, data, trace>>
    /\ UNCHANGED upperVars

CheckResult_falseOnError(result) ==
    IF result = ADSERR_NOERR THEN Ret("True") ELSE Ret("False")

\* check_connection: if result == ADSERR_NOERR: return True, else raise
CheckResult(result) ==
    IF result = ADSERR_NOERR THEN Ret("True") ELSE Exc("ADSError", result)

\* check_connection: read_state, which returns the status the DLL gave it
\* without raising, and the test of that result
ReadState ==
    /\ pc = "read_state"
    /\ \E status \in {ADSERR_NOERR} \cup ErrCodes :
         /\ trace' = Append(trace, Event("read_state", 0, 0, <<>>, <<>>, status))
         /\ pend' = CheckResult(status)
    /\ pc' = "unwind"
    /\ UNCHANGED <<netId, openPorts, authKeys, op, caller, args, port,
                   handle, cleanup, data>>
    /\ UNCHANGED upperVars

\* The device can open a file for reading only if it exists; the PID file
\* belongs to the sshd service and may or may not be there.
CanOpen(p, mode) ==
    HasFlag(mode, FOPEN_WRITE) \/ p # AUTHORIZED_KEYS_PATH \/ authKeys # Absent

\* What a successful open does to the remote file
AfterOpen(p, mode) ==
    IF p = AUTHORIZED_KEYS_PATH /\ HasFlag(mode, FOPEN_OVERWRITE)
    THEN <<>> ELSE authKeys

\* _file_handle: the open exchange and the decoding of the handle
FOpen ==
    /\ pc = "fopen"
    /\ LET mode == ModeOf(op)
           ev(status) == Event("read_write", SYSTEMSERVICE_FOPEN, mode, <<>>, <<args.path, NUL>>, status)
       IN  \/ \E c \in ErrCodes :
                /\ trace' = Append(trace, ev(c))
                /\ pend' = Exc("ADSError", c)
                /\ pc' = "unwind"
                /\ UNCHANGED <<handle, cleanup, authKeys>>
           \/ /\ CanOpen(args.path, mode)
              /\ trace' = Append(trace, ev(ADSERR_NOERR))
              /\ authKeys' = AfterOpen(args.path, mode)
              /\ \/ \E h \in Handles :
                      /\ handle' = h
                      /\ cleanup' = FileHandleCleanup(cleanup)
                      /\ pc' = "fdata"
                      /\ UNCHANGED pend
                 \/ /\ pend' = Exc("struct.error", 0)
                    /\ pc' = "unwind"
                    /\ UNCHANGED <<handle, cleanup>>
    /\ UNCHANGED <<netId, openPorts, op, caller, args, port, data>>
    /\ UNCHANGED upperVars

\* What the device holds in the file an open handle refers to.  The PID file
\* is rewritten by the sshd service, so each read of it may see any text.
DigitChar(n) == CASE n = 0 -> "0" [] n = 1 -> "1" [] n = 2 -> "2" [] n = 3 -> "3"
                  [] n = 4 -> "4" [] n = 5 -> "5" [] n = 6 -> "6" [] n = 7 -> "7"
                  [] n = 8 -> "8" [] n = 9 -> "9"
PidTexts ==
    {<<DigitChar(n)>> : n \in 1..MaxPid}
    \cup {<<DigitChar(1), NL>>, <<"x">>, <<"-", DigitChar(5)>>}

StoredBytes(p) ==
    IF p = AUTHORIZED_KEYS_PATH THEN {authKeys} ELSE PidTexts

\* read_write returns read_buffer.raw[:bytes_read]: at most read_length bytes
ReadBytes(content, read_length) == SubSeq(content, 1, Min(Len(content), read_length))

\* data.rstrip(b'\x00').decode('utf-8', errors='replace')
DecodeRead(bytes) == RStripNul(bytes)

\* read_file: the read exchange inside the two with-blocks
FRead ==
    /\ pc = "fdata"
    /\ op = "read_file"
    /\ LET ev(status) == Event("read_write", SYSTEMSERVICE_FREAD, handle, <<>>, <<>>, status)
       IN  \/ \E c \in ErrCodes :
                /\ trace' = Append(trace, ev(c))
                /\ pend' = Exc("ADSError", c)
                /\ UNCHANGED data
           \/ \E stored \in StoredBytes(args.path) :
                /\ trace' = Append(trace, ev(ADSERR_NOERR))
                /\ data' = DecodeRead(ReadBytes(stored, DefaultMaxSize))
                /\ pend' = Ret("str")
    /\ pc' = "unwind"
    /\ UNCHANGED <<netId, openPorts, authKeys, op, caller, args, port, handle, cleanup>>
    /\ UNCHANGED upperVars

FWriteCall_writeOnly == "write"

\* write_file: the DLL function that carries the data, dll.read_write
FWriteCall == "read_write"

\* write_file: the write exchange inside the two with-blocks
FWrite ==
    /\ pc = "fdata"
    /\ op = "write_file"
    /\ LET ev(status) == Event(FWriteCall, SYSTEMSERVICE_FWRITE, handle, <<>>,
                           args.content, status)
       IN  \/ \E c \in ErrCodes :
                /\ trace' = Append(trace, ev(c))
                /\ pend' = Exc("ADSError", c)
                /\ UNCHANGED authKeys
           \/ /\ trace' = Append(trace, ev(ADSERR_NOERR))
              /\ authKeys' = IF args.path = AUTHORIZED_KEYS_PATH
                             THEN args.content ELSE authKeys
              /\ pend' = Ret("None")
    /\ pc' = "unwind"
    /\ UNCHANGED <<netId, openPorts, op, caller, args, port, handle, cleanup, data>>
    /\ UNCHANGED upperVars

\* file_exists: the get-status exchange
FGetStatus ==
    /\ pc = "fstatus"
    /\ LET ev(status) == Event("read_write", SYSTEMSERVICE_FGETSTATUS, 1, <<>>,
                           <<args.path, NUL>>, status)
       IN  \/ \E c \in ErrCodes :
                /\ trace' = Append(trace, ev(c))
                /\ pend' = Exc("ADSError", c)
           \/ /\ CanOpen(args.path, ReadMode)
              /\ trace' = Append(trace, ev(ADSERR_NOERR))
              /\ pend' = Ret("True")
    /\ pc' = "unwind"
    /\ UNCHANGED <<netId, openPorts, authKeys, op, caller, args, port, handle,
                   cleanup, data>>
    /\ UNCHANGED upperVars

\* command.split(None, 1)
IsSpace(c) == c \in Whitespace
FirstSpace(s) ==
    IF \E i \in 1..Len(s) : IsSpace(s[i])
    THEN CHOOSE i \in 1..Len(s) : IsSpace(s[i]) /\ \A j \in 1..(i - 1) : ~IsSpace(s[j])
    ELSE 0
SplitCommand(command) ==
    LET s == LStrip(command)
        i == FirstSpace(s)
    IN  IF s = <<>> THEN <<>>
        ELSE IF i = 0 THEN <<s>>
        ELSE LET rest == LStrip(SubSeq(s, i + 1, Len(s)))
             IN  IF rest = <<>> THEN <<SubSeq(s, 1, i - 1)>>
                 ELSE <<SubSeq(s, 1, i - 1), rest>>
ProcessStr(command) ==
    LET parts == SplitCommand(command) IN IF parts # <<>> THEN parts[1] ELSE command
CmdlineStr(command) ==
    LET parts == SplitCommand(command) IN IF Len(parts) > 1 THEN parts[2] ELSE <<>>

\* str.encode('utf-8'): one byte for an ASCII character, two for U+00E9
EAcute == "U+00E9"
Utf8Char(c) == IF c = EAcute THEN <<"xC3", "xA9">> ELSE <<c>>

RECURSIVE Utf8(_)
Utf8(s) == IF s = <<>> THEN <<>> ELSE Utf8Char(Head(s)) \o Utf8(Tail(s))

\* struct.pack('<I', n): four bytes, least significant first
Pack32(n) ==
    <<n % 256, (n \div 256) % 256, (n \div 65536) % 256, (n \div 16777216) % 256>>

StartProcessHeader_charLengths(command, working_dir) ==
    Pack32(Len(ProcessStr(command))) \o Pack32(Len(working_dir))
    \o Pack32(Len(CmdlineStr(command)))

\* struct.pack('<III', len(process_bytes), len(dir_bytes), len(cmdline_bytes))
StartProcessHeader(command, working_dir) ==
    Pack32(Len(Utf8(ProcessStr(command)))) \o Pack32(Len(Utf8(working_dir)))
    \o Pack32(Len(Utf8(CmdlineStr(command))))

\* process_bytes + b'\x00' + dir_bytes + b'\x00' + cmdline_bytes + b'\x00'
StartProcessData(command, working_dir) ==
    Utf8(ProcessStr(command)) \o <<NUL>> \o Utf8(working_dir) \o <<NUL>>
    \o Utf8(CmdlineStr(command)) \o <<NUL>>

\* a & b, on two's-complement integers of any size, for b >= 0
RECURSIVE BitAnd(_, _)
BitAnd(a, b) ==
    IF b = 0 THEN 0
    ELSE (a % 2) * (b % 2) + 2 * BitAnd(a \div 2, b \div 2)

\* a | b, for a >= 0 and b >= 0
RECURSIVE BitOr(_, _)
BitOr(a, b) ==
    IF a = 0 /\ b = 0 THEN 0
    ELSE (IF a % 2 = 1 \/ b % 2 = 1 THEN 1 ELSE 0) + 2 * BitOr(a \div 2, b \div 2)

IndexOffset_noMask(timeout_ms, hide_window) ==
    timeout_ms + (IF hide_window THEN 65536 ELSE 0)

\* (timeout_ms & 0xFFFF) | (0x10000 if hide_window else 0)
IndexOffset(timeout_ms, hide_window) ==
    BitOr(BitAnd(timeout_ms, 65535), IF hide_window THEN 65536 ELSE 0)

RunCommandReturn_exitCode(remote_exit) == Ret(IF remote_exit = 0 THEN "0" ELSE "1")

\* run_command: return 0, whatever the started process does
RunCommandReturn(remote_exit) == Ret("0")

\* Exit codes of the process the device starts
RemoteExitCodes == {0, 1}

\* run_command: the start-process write
StartProcess ==
    /\ pc = "startproc"
    /\ LET ev(status) == Event("write", SYSTEMSERVICE_STARTPROCESS,
                           IndexOffset(args.timeout_ms, args.hide_window),
                           StartProcessHeader(args.command, args.working_dir),
                           StartProcessData(args.command, args.working_dir), status)
       IN  \/ \E c \in ErrCodes :
                /\ trace' = Append(trace, ev(c))
                /\ pend' = Exc("ADSError", c)
           \/ \E remote_exit \in RemoteExitCodes :
                /\ trace' = Append(trace, ev(ADSERR_NOERR))
                /\ pend' = RunCommandReturn(remote_exit)
    /\ pc' = "unwind"
    /\ UNCHANGED <<netId, openPorts, authKeys, op, caller, args, port, handle,
                   cleanup, data>>
    /\ UNCHANGED upperVars

----------------------------------------------------------------------------
\* Leaving the with-blocks and try-blocks

CloseOutcome_raises(p, status) ==
    IF status = ADSERR_NOERR THEN p ELSE Exc("ADSError", status)

\* _file_handle, finally: try: dll.write(...) except Exception: pass
CloseOutcome(p, status) == p

\* Statuses the close write is answered with; a failure is discarded
CloseStatuses == {ADSERR_NOERR, 1804}

\* _file_handle, finally: the close write, its errors suppressed
FClose ==
    /\ pc = "unwind"
    /\ cleanup # <<>>
    /\ Head(cleanup) = "fclose"
    /\ \E status \in CloseStatuses :
         /\ trace' = Append(trace, Event("write", handle, SYSTEMSERVICE_NOSEEK,
                                         <<>>, <<>>, status))
         /\ pend' = CloseOutcome(pend, status)
    /\ cleanup' = Tail(cleanup)
    /\ UNCHANGED <<netId, openPorts, authKeys, op, caller, args, pc, port, handle,
                   data>>
    /\ UNCHANGED upperVars

\* check_connection / _connect, finally: port_close(port)
PortClose ==
    /\ pc = "unwind"
    /\ cleanup # <<>>
    /\ Head(cleanup) = "port_close"
    /\ \/ /\ trace' = Append(trace, Event("port_close", 0, 0, <<>>, <<>>, ADSERR_NOERR))
          /\ openPorts' = openPorts \ {port}
          /\ UNCHANGED pend
       \/ \E c \in ErrCodes :
            /\ trace' = Append(trace, Event("port_close", 0, 0, <<>>, <<>>, c))
            /\ pend' = Exc("ADSError", c)
            /\ UNCHANGED openPorts
    /\ cleanup' = Tail(cleanup)
    /\ UNCHANGED <<netId, authKeys, op, caller, args, pc, port, handle, data>>
    /\ UNCHANGED upperVars

\* file_exists: except Exception: return False
Outcome(o, p) ==
    IF o = "file_exists" /\ p.kind = "exc" THEN Ret("False") ELSE p

\* The operation returns or raises to its caller
Leave ==
    /\ pc = "unwind"
    /\ cleanup = <<>>
    /\ pc' = "return"
    /\ pend' = Outcome(op, pend)
    /\ UNCHANGED <<netId, openPorts, authKeys, op, caller, args, port, handle,
                   cleanup, data, trace>>
    /\ UNCHANGED upperVars

ConnectSteps == PortOpen \/ MakeAddr \/ PortClose \/ Leave
FileSteps == FOpen \/ FClose

----------------------------------------------------------------------------
\* Calling the operations of ADSInterface directly

Commands == {<<>>, <<SP>>, <<"a">>, <<"a", SP, "a">>, <<SP, "a", SP, SP, "a", SP>>,
             <<EAcute, SP, EAcute>>}
WorkingDirs == {<<>>, <<"a", EAcute>>}
CommandTimeoutsMs == {-1, 1000, 10000, 65536, 75536}
TimeoutsMs == {s * 1000 + r : s \in 0..MaxTimeoutS, r \in {0, 999}}

CallOp ==
    /\ pc = "idle"
    /\ \/ Begin("check_connection", NoArgs, "top")
       \/ \E p \in {AUTHORIZED_KEYS_PATH, PID_FILE_PATH} :
            Begin("read_file", PathArgs(p), "top")
       \/ \E c \in StringsUpTo({"a", NL}, 1) :
            Begin("write_file", WriteArgs(AUTHORIZED_KEYS_PATH, c), "top")
       \/ Begin("file_exists", PathArgs(AUTHORIZED_KEYS_PATH), "top")
       \/ \E c \in Commands, wd \in WorkingDirs, t \in CommandTimeoutsMs, h \in BOOLEAN :
            Begin("run_command", CommandArgs(c, wd, t, h), "top")
    /\ UNCHANGED <<netId, openPorts, authKeys>>
    /\ UNCHANGED upperVars

ReturnOp ==
    /\ pc = "return"
    /\ caller = "top"
    /\ Idle
    /\ UNCHANGED <<netId, openPorts, authKeys>>
    /\ UNCHANGED upperVars

\* A value that was not given: Python's None
Unset == "<unset>"

\* Tcpkgman.run is not running
CliUnused ==
    /\ argRemote = Unset
    /\ envRemote = Unset
    /\ argAdd = Unset
    /\ argRemove = Unset
    /\ argList = FALSE
    /\ argInit = FALSE
    /\ remaining = <<>>
    /\ cpc = "unused"
    /\ remote = Unset
    /\ addName = Unset
    /\ skipConf = FALSE
    /\ addRet = "none"
    /\ cliLog = <<>>
    /\ exitCode = 0 - 1
    /\ cexc = "none"

\* No second call of copy_ssh_key, no second operation
SideUnused ==
    /\ kcalls = 0
    /\ opc = "unused"
    /\ oport = 0
    /\ otrace = <<>>

\* copy_ssh_key is not running
KeyUnused ==
    /\ localKey = Absent
    /\ keyContent = <<>>
    /\ existing = None
    /\ kpc = "unused"
    /\ kres = NoPend
    /\ writeCalls = 0
    /\ written = <<>>
    /\ authKeys0 = Absent

PidNone == [present |-> FALSE, value |-> 0]
Pid(n) == [present |-> TRUE, value |-> n]

\* _ssh_init_interactive is not running
BootUnused ==
    /\ bpc = "unused"
    /\ bres = NoPend
    /\ sshDir = {}
    /\ keygens = 0
    /\ bootLog = <<>>

\* restart_openssh_server is not running
RestartUnused ==
    /\ timeoutMs = 0
    /\ rpc = "unused"
    /\ rres = NoPend
    /\ rexit = "none"
    /\ oldPid = PidNone
    /\ newPid = PidNone
    /\ polls = 0
    /\ sleeps = 0
    /\ slept = 0
    /\ pidReads = 0
    /\ restarts = 0
    /\ allSame = TRUE
    /\ sawAbsent = FALSE

\* No address is being constructed
AddrUnused ==
    /\ idText = <<>>
    /\ apc = "unused"
    /\ idParts = <<>>
    /\ addrBytes = <<0, 0, 0, 0, 0, 0>>
    /\ ares = NoPend

\* No SSH connection test is running
SshUnused ==
    /\ sfn = "none"
    /\ maxRetries = 0
    /\ attempt = 0
    /\ spc = "unused"
    /\ sres = NoPend
    /\ sshLog = <<>>
    /\ sshSlept = 0

InitOps ==
    /\ netId \in NetIds
    /\ openPorts = {}
    /\ authKeys \in {Absent, <<>>, <<"a", NL>>, <<"a", NUL>>}
    /\ op = "none"
    /\ args = NoArgs
    /\ caller = "none"
    /\ pc = "idle"
    /\ port = 0
    /\ handle = 0
    /\ cleanup = <<>>
    /\ pend = NoPend
    /\ data = <<>>
    /\ trace = <<>>
    /\ KeyUnused
    /\ RestartUnused
    /\ BootUnused
    /\ AddrUnused
    /\ SshUnused
    /\ CliUnused
    /\ SideUnused

NextOps ==
    \/ CallOp \/ ReturnOp
    \/ ConnectSteps
    \/ ReadState
    \/ FileSteps \/ FRead \/ FWrite
    \/ FGetStatus
    \/ StartProcess

SpecOps == InitOps /\ [][NextOps]_vars

----------------------------------------------------------------------------
\* A second operation of ADSInterface running between the steps of the
\* first: the calls _connect makes on the shared TcAdsDll, with the port in
\* a local variable of its own

OtherUnchanged ==
    /\ UNCHANGED <<netId, authKeys, op, caller, args, pc, port, handle, cleanup,
                   pend, data, trace>>
    /\ UNCHANGED <<keyVars, restartVars, bootVars, addrVars, sshVars, cliVars,
                   kcalls>>

\* _connect: port = self._dll.port_open()
OtherOpen ==
    /\ opc = "idle"
    /\ \/ \E p \in FreePorts(openPorts) :
            /\ oport' = p
            /\ openPorts' = openPorts \cup {p}
            /\ otrace' = <<[call |-> "port_open", port |-> p, ok |-> TRUE,
                            live |-> TRUE]>>
            /\ opc' = "addr"
       \/ /\ opc' = "done"
          /\ oport' = 0
          /\ otrace' = <<>>
          /\ UNCHANGED openPorts
    /\ OtherUnchanged

\* _connect: addr = AmsAddr(self.ams_net_id, SYSTEMSERVICE_PORT), before the
\* try block
OtherAddr ==
    /\ opc = "addr"
    /\ opc' = IF AmsAddrOk(netId) THEN "exchange" ELSE "done"
    /\ UNCHANGED <<openPorts, oport, otrace>>
    /\ OtherUnchanged

\* The body of the with block: one exchange on the port, which may fail
OtherExchange ==
    /\ opc = "exchange"
    /\ \E good \in BOOLEAN :
         otrace' = Append(otrace, [call |-> "exchange", port |-> oport,
                                   ok |-> good, live |-> oport \in openPorts])
    /\ opc' = "unwind"
    /\ UNCHANGED <<openPorts, oport>>
    /\ OtherUnchanged

\* _connect, finally: self._dll.port_close(port)
OtherClose ==
    /\ opc = "unwind"
    /\ \E good \in BOOLEAN :
         /\ otrace' = Append(otrace, [call |-> "port_close", port |-> oport,
                                      ok |-> good, live |-> oport \in openPorts])
         /\ openPorts' = IF good THEN openPorts \ {oport} ELSE openPorts
    /\ opc' = "done"
    /\ UNCHANGED oport
    /\ OtherUnchanged

\* The second operation has returned or raised; another one may follow
OtherReturn ==
    /\ opc = "done"
    /\ opc' = "idle"
    /\ oport' = 0
    /\ otrace' = <<>>
    /\ UNCHANGED openPorts
    /\ OtherUnchanged

OtherSteps == OtherOpen \/ OtherAddr \/ OtherExchange \/ OtherClose \/ OtherReturn

\* The first operation, one call of each kind
CallOne ==
    /\ pc = "idle"
    /\ \/ Begin("check_connection", NoArgs, "top")
       \/ Begin("read_file", PathArgs(AUTHORIZED_KEYS_PATH), "top")
       \/ Begin("write_file", WriteArgs(AUTHORIZED_KEYS_PATH, <<"a">>), "top")
       \/ Begin("file_exists", PathArgs(AUTHORIZED_KEYS_PATH), "top")
       \/ Begin("run_command", CommandArgs(<<"a">>, <<>>, 1000, TRUE), "top")
    /\ UNCHANGED <<netId, openPorts, authKeys>>
    /\ UNCHANGED upperVars

InitPair ==
    /\ netId \in NetIds
    /\ openPorts = {}
    /\ authKeys \in {Absent, <<"a", NL>>}
    /\ op = "none"
    /\ args = NoArgs
    /\ caller = "none"
    /\ pc = "idle"
    /\ port = 0
    /\ handle = 0
    /\ cleanup = <<>>
    /\ pend = NoPend
    /\ data = <<>>
    /\ trace = <<>>
    /\ KeyUnused
    /\ RestartUnused
    /\ BootUnused
    /\ AddrUnused
    /\ SshUnused
    /\ CliUnused
    /\ kcalls = 0
    /\ opc = "idle"
    /\ oport = 0
    /\ otrace = <<>>

NextPair ==
    \/ CallOne \/ ReturnOp
    \/ ConnectSteps
    \/ ReadState
    \/ FileSteps \/ FRead \/ FWrite
    \/ FGetStatus
    \/ StartProcess
    \/ OtherSteps

SpecPair == InitPair /\ [][NextPair]_vars


----------------------------------------------------------------------------
\* Properties of one ADSInterface operation

Indices == 1..Len(trace)
IsExchange(e) == e.call \in {"read_state", "write", "read_write"}
IsPortClose(e) == e.call = "port_close"
IsFileOpen(e) == e.call = "read_write" /\ e.group = SYSTEMSERVICE_FOPEN
IsFileData(e) ==
    e.call = "read_write" /\ e.group \in {SYSTEMSERVICE_FREAD, SYSTEMSERVICE_FWRITE}
IsFileClose(e) == e.call = "write" /\ e.offset = SYSTEMSERVICE_NOSEEK
PortCloses(p) == {i \in Indices : IsPortClose(trace[i]) /\ trace[i].port = p}
FileCloses == {i \in Indices : IsFileClose(trace[i])}
Finished == pc = "return"

\* C1 (as claimed): an operation that opened a port has, when it returns or
\* raises, closed that port exactly once, whichever step failed in between.
C1_PortClosedOnce ==
    (Finished /\ port # 0) => Cardinality(PortCloses(port)) = 1

C3_ExchangesOnOpenPort ==
    /\ \A i \in Indices : IsExchange(trace[i]) =>
         /\ trace[i].live
         /\ \E j \in 1..(i - 1) :
              /\ trace[j].call = "port_open"
              /\ trace[j].port = trace[i].port
         /\ \A j \in 1..(i - 1) : ~IsPortClose(trace[j])
    /\ \A i \in Indices : (IsFileData(trace[i]) \/ IsFileClose(trace[i])) =>
         \E j \in 1..(i - 1) :
           /\ IsFileOpen(trace[j]) /\ trace[j].ok
           /\ trace[j].port = trace[i].port
    /\ \A i \in FileCloses : \A j \in Indices : IsPortClose(trace[j]) => i < j

\* C3 witness: a file was closed and then the port was closed
C3_Witness ==
    /\ Finished
    /\ FileCloses # {}
    /\ \E j \in Indices : IsPortClose(trace[j]) /\ trace[j].ok

----------------------------------------------------------------------------
\* ADSSSHKeyManager.copy_ssh_key

LocalKeyChars == {"a", NL}
TwoLineKey == <<"a", NL, "a">>
LocalKeys == StringsUpTo(LocalKeyChars, MaxKeyLen) \cup {TwoLineKey}

IsKeyPresent_noLineStrip(authorized_keys_content, key_content) ==
    LET key == Strip(key_content)
        lines == SplitLines(authorized_keys_content)
    IN  \E i \in 1..Len(lines) : lines[i] = key

\* _is_key_present
IsKeyPresent(authorized_keys_content, key_content) ==
    LET key == Strip(key_content)
        lines == SplitLines(authorized_keys_content)
    IN  \E i \in 1..Len(lines) : Strip(lines[i]) = key

\* The content copy_ssh_key passes to write_file
ContentToWrite(existing_content, key_content) == key_content \o <<NL>>

\* copy_ssh_key up to its read_file call: find and read the local key
KeyStart ==
    /\ kpc = "start"
    /\ pc = "idle"
    /\ IF localKey = Absent
       THEN /\ kres' = Exc("FileNotFoundError", 0)
            /\ kpc' = "done"
            /\ UNCHANGED <<keyContent, opVars>>
       ELSE /\ keyContent' = Strip(localKey)
            /\ Begin("read_file", PathArgs(AUTHORIZED_KEYS_PATH), "copy_ssh_key")
            /\ kpc' = "reading"
            /\ UNCHANGED <<kres, netId, openPorts, authKeys>>
    /\ UNCHANGED <<localKey, existing, writeCalls, written, authKeys0>>
    /\ UNCHANGED <<restartVars, bootVars, auxVars>>

ReadFailureFatal_always(p) == p.kind = "exc"

\* The try around the read of the remote file: except Exception: pass
ReadFailureFatal(p) == FALSE

\* copy_ssh_key from the return of read_file to the write_file call
KeyAfterRead ==
    /\ kpc = "reading"
    /\ pc = "return"
    /\ caller = "copy_ssh_key"
    /\ existing' = IF pend.kind = "ret" THEN data ELSE None
    /\ IF ReadFailureFatal(pend)
       THEN /\ kres' = pend
            /\ kpc' = "done"
            /\ Idle
            /\ UNCHANGED <<writeCalls, written>>
       ELSE IF pend.kind = "ret" /\ IsKeyPresent(data, keyContent)
       THEN /\ kres' = Ret("None")
            /\ kpc' = "done"
            /\ Idle
            /\ UNCHANGED <<writeCalls, written>>
       ELSE /\ written' = ContentToWrite(IF pend.kind = "ret" THEN data ELSE <<>>,
                                         keyContent)
            /\ writeCalls' = writeCalls + 1
            /\ Begin("write_file", WriteArgs(AUTHORIZED_KEYS_PATH, written'),
                     "copy_ssh_key")
            /\ kpc' = "writing"
            /\ UNCHANGED kres
    /\ UNCHANGED <<netId, openPorts, authKeys, localKey, keyContent, authKeys0>>
    /\ UNCHANGED <<restartVars, bootVars, auxVars>>

\* copy_ssh_key after write_file returned or raised
KeyAfterWrite ==
    /\ kpc = "writing"
    /\ pc = "return"
    /\ caller = "copy_ssh_key"
    /\ kres' = pend
    /\ kpc' = "done"
    /\ Idle
    /\ UNCHANGED <<netId, openPorts, authKeys, localKey, keyContent, existing,
                   writeCalls, written, authKeys0>>
    /\ UNCHANGED <<restartVars, bootVars, auxVars>>

KeySteps == KeyStart \/ KeyAfterRead \/ KeyAfterWrite

InitKey ==
    /\ netId \in NetIds
    /\ openPorts = {}
    /\ authKeys \in {Absent} \cup RemoteContents
    /\ op = "none"
    /\ args = NoArgs
    /\ caller = "none"
    /\ pc = "idle"
    /\ port = 0
    /\ handle = 0
    /\ cleanup = <<>>
    /\ pend = NoPend
    /\ data = <<>>
    /\ trace = <<>>
    /\ localKey \in {Absent} \cup LocalKeys
    /\ keyContent = <<>>
    /\ existing = None
    /\ kpc = "start"
    /\ kres = NoPend
    /\ writeCalls = 0
    /\ written = <<>>
    /\ authKeys0 = authKeys
    /\ RestartUnused
    /\ BootUnused
    /\ AddrUnused
    /\ SshUnused
    /\ CliUnused
    /\ SideUnused

NextKey ==
    \/ KeySteps
    \/ ConnectSteps
    \/ FileSteps \/ FRead \/ FWrite

SpecKey == InitKey /\ [][NextKey]_vars

\* A caller that calls copy_ssh_key a second time, with the same local key,
\* after the first call returned
KeyAgain ==
    /\ kpc = "done"
    /\ kres.kind = "ret"
    /\ kcalls = 0
    /\ kcalls' = 1
    /\ kpc' = "start"
    /\ kres' = NoPend
    /\ keyContent' = <<>>
    /\ existing' = None
    /\ writeCalls' = 0
    /\ written' = <<>>
    /\ authKeys0' = authKeys
    /\ UNCHANGED <<opVars, localKey, opc, oport, otrace>>
    /\ UNCHANGED <<restartVars, bootVars, addrVars, sshVars, cliVars>>

NextTwice == NextKey \/ KeyAgain

SpecTwice == InitKey /\ [][NextTwice]_vars

----------------------------------------------------------------------------
\* Properties of copy_ssh_key

KeyDone == kpc = "done" /\ kres.type # "FileNotFoundError"
ReadOk == existing # None

IsSubstring(t, s) ==
    \E i \in 0..(Len(s) - Len(t)) : SubSeq(s, i + 1, i + Len(t)) = t

\* Some line of the content equals, after trimming, the trimmed key
SomeLineIs(content, key) ==
    \E i \in 1..Len(SplitLines(content)) : Strip(SplitLines(content)[i]) = Strip(key)

\* C4: copy_ssh_key makes no write_file call when some line of the content
\* it read equals, after trimming, the trimmed local key; otherwise it makes
\* exactly one, whose content contains the key followed by a newline.
C4_IdempotentInstall ==
    KeyDone =>
      IF ReadOk /\ SomeLineIs(existing, localKey)
      THEN writeCalls = 0
      ELSE /\ writeCalls = 1
           /\ IsSubstring(Strip(localKey) \o <<NL>>, written)

\* C4 witness: a remote line equal to the key only after trimming, no write
C4_Witness ==
    /\ KeyDone
    /\ ReadOk
    /\ keyContent # <<>>
    /\ SomeLineIs(existing, localKey)
    /\ \A i \in 1..Len(SplitLines(existing)) : SplitLines(existing)[i] # keyContent
    /\ writeCalls = 0

\* C5 (as claimed): when the remote file was read and lacks the key, the
\* content written is the content read followed by the new key line, so the
\* lines read are still in the remote file after a successful write; the key
\* line is written alone only when the file could not be read.
C5_AppendsToExisting ==
    (KeyDone /\ writeCalls = 1) =>
      /\ written = (IF ReadOk THEN existing ELSE <<>>) \o Strip(localKey) \o <<NL>>
      /\ (ReadOk /\ kres.kind = "ret") =>
           \A i \in 1..Len(SplitLines(existing)) :
             \E j \in 1..Len(SplitLines(authKeys)) :
               SplitLines(authKeys)[j] = SplitLines(existing)[i]

----------------------------------------------------------------------------
\* ADSSSHKeyManager.restart_openssh_server, _read_sshd_pid, _poll_pid_change

\* cmd = 'powershell.exe -Command "Restart-Service sshd"'
RestartCommand == <<
    "p", "o", "w", "e", "r", "s", "h", "e", "l", "l", ".", "e", "x",
    "e", " ", "-", "C", "o", "m", "m", "a", "n", "d", " ", "\"", "R",
    "e", "s", "t", "a", "r", "t", "-", "S", "e", "r", "v", "i", "c",
    "e", " ", "s", "s", "h", "d", "\"" >>

Digits == {DigitChar(n) : n \in 0..9}
DigitValue(c) == CHOOSE n \in 0..9 : DigitChar(n) = c

RECURSIVE DigitsValue(_)
DigitsValue(s) ==
    IF s = <<>> THEN 0
    ELSE DigitsValue(SubSeq(s, 1, Len(s) - 1)) * 10 + DigitValue(s[Len(s)])

\* int(content): an optional sign and decimal digits, anything else raises
ParseInt(s) ==
    LET signed == s # <<>> /\ s[1] \in {"-", "+"}
        body == IF signed THEN Tail(s) ELSE s
    IN  IF body # <<>> /\ \A i \in 1..Len(body) : body[i] \in Digits
        THEN Pid(IF signed /\ s[1] = "-" THEN 0 - DigitsValue(body)
                 ELSE DigitsValue(body))
        ELSE PidNone

ReadSshdPid_noStrip(p, text) ==
    IF p.kind = "ret" THEN ParseInt(text) ELSE PidNone

\* _read_sshd_pid, given how its read_file call ended
ReadSshdPid(p, text) ==
    IF p.kind = "ret" THEN ParseInt(Strip(text)) ELSE PidNone

CapturedMissing_never(pid) == FALSE

\* restart_openssh_server: if old_pid is None
CapturedMissing(pid) == ~pid.present

TimeoutS_inMilliseconds(timeout_ms) == timeout_ms
TimeoutS_atLeastOne(timeout_ms) ==
    IF timeout_ms < 1000 THEN 1 ELSE timeout_ms \div 1000
TimeoutS_roundedUp(timeout_ms) == (timeout_ms + 999) \div 1000

\* restart_openssh_server: timeout_s = timeout_ms // 1000
TimeoutS(timeout_ms) == timeout_ms \div 1000

PidChanged_noNoneTest(new_pid, old_pid) == new_pid # old_pid

\* _poll_pid_change: new_pid is not None and new_pid != old_pid
PidChanged(new_pid, old_pid) == new_pid.present /\ new_pid # old_pid

FinalOutcome_timeoutAlways(new_pid, old_pid) ==
    IF ~new_pid.present THEN Exc("pid-file-missing-after-timeout", 0)
    ELSE IF new_pid = old_pid THEN Exc("pid-unchanged-after-timeout", 0)
    ELSE Exc("pid-changed-after-timeout", 0)

FinalOutcome_noEqualTest(new_pid, old_pid) ==
    IF ~new_pid.present THEN Exc("pid-file-missing-after-timeout", 0)
    ELSE Exc("pid-unchanged-after-timeout", 0)

\* _poll_pid_change after the loop: the two RuntimeErrors or the new PID
FinalOutcome(new_pid, old_pid) ==
    IF ~new_pid.present THEN Exc("pid-file-missing-after-timeout", 0)
    ELSE IF new_pid = old_pid THEN Exc("pid-unchanged-after-timeout", 0)
    ELSE Ret("0")

ReadPidFile ==
    /\ Begin("read_file", PathArgs(PID_FILE_PATH), "restart_openssh_server")
    /\ pidReads' = pidReads + 1

\* restart_openssh_server: old_pid = self._read_sshd_pid()
RestartStart ==
    /\ rpc = "start"
    /\ pc = "idle"
    /\ ReadPidFile
    /\ rpc' = "capture"
    /\ UNCHANGED <<netId, openPorts, authKeys, timeoutMs, rres, rexit, oldPid,
                   newPid, polls, sleeps, slept, restarts, allSame, sawAbsent>>
    /\ UNCHANGED <<keyVars, bootVars, auxVars>>

\* restart_openssh_server: the test of old_pid and the run_command call
RestartCaptured ==
    /\ rpc = "capture"
    /\ pc = "return"
    /\ caller = "restart_openssh_server"
    /\ LET pid == ReadSshdPid(pend, data)
       IN  /\ oldPid' = pid
           /\ IF CapturedMissing(pid)
              THEN /\ rres' = Exc("service-not-running", 0)
                   /\ rexit' = "capture"
                   /\ rpc' = "done"
                   /\ Idle
                   /\ UNCHANGED restarts
              ELSE /\ Begin("run_command",
                            CommandArgs(RestartCommand, <<>>, timeoutMs, TRUE),
                            "restart_openssh_server")
                   /\ restarts' = restarts + 1
                   /\ rpc' = "command"
                   /\ UNCHANGED <<rres, rexit>>
    /\ UNCHANGED <<netId, openPorts, authKeys, timeoutMs, newPid, polls, sleeps,
                   slept, pidReads, allSame, sawAbsent>>
    /\ UNCHANGED <<keyVars, bootVars, auxVars>>

AfterCommand_startsOver(p) == IF p.kind = "exc" THEN "start" ELSE "loop"

\* restart_openssh_server: an exception of run_command leaves the function,
\* a return goes on to _poll_pid_change
AfterCommand(p) == IF p.kind = "exc" THEN "done" ELSE "loop"

\* restart_openssh_server: run_command returned or raised
RestartIssued ==
    /\ rpc = "command"
    /\ pc = "return"
    /\ caller = "restart_openssh_server"
    /\ rpc' = AfterCommand(pend)
    /\ IF pend.kind = "exc"
       THEN /\ rres' = pend
            /\ rexit' = "command"
       ELSE UNCHANGED <<rres, rexit>>
    /\ Idle
    /\ UNCHANGED <<netId, openPorts, authKeys, timeoutMs, oldPid, newPid, polls,
                   sleeps, slept, pidReads, restarts, allSame, sawAbsent>>
    /\ UNCHANGED <<keyVars, bootVars, auxVars>>

\* _poll_pid_change: for _ in range(timeout_s): time.sleep(1)
PollSleep ==
    /\ rpc = "loop"
    /\ polls < TimeoutS(timeoutMs)
    /\ sleeps' = sleeps + 1
    /\ slept' = slept + 1
    /\ rpc' = "slept"
    /\ UNCHANGED <<opVars, timeoutMs, rres, rexit, oldPid, newPid, polls, pidReads,
                   restarts, allSame, sawAbsent>>
    /\ UNCHANGED <<keyVars, bootVars, auxVars>>

\* _poll_pid_change, in the loop: new_pid = self._read_sshd_pid()
PollRead ==
    /\ rpc = "slept"
    /\ pc = "idle"
    /\ ReadPidFile
    /\ rpc' = "polling"
    /\ UNCHANGED <<netId, openPorts, authKeys, timeoutMs, rres, rexit, oldPid,
                   newPid, polls, sleeps, slept, restarts, allSame, sawAbsent>>
    /\ UNCHANGED <<keyVars, bootVars, auxVars>>

\* _poll_pid_change, in the loop: the test of new_pid
PollReturned ==
    /\ rpc = "polling"
    /\ pc = "return"
    /\ caller = "restart_openssh_server"
    /\ LET pid == ReadSshdPid(pend, data)
       IN  /\ newPid' = pid
           /\ allSame' = (allSame /\ pid = oldPid)
           /\ sawAbsent' = (sawAbsent \/ ~pid.present)
           /\ IF PidChanged(pid, oldPid)
              THEN /\ rres' = Ret("0")
                   /\ rexit' = "poll"
                   /\ rpc' = "done"
              ELSE /\ rpc' = "loop"
                   /\ UNCHANGED <<rres, rexit>>
    /\ polls' = polls + 1
    /\ Idle
    /\ UNCHANGED <<netId, openPorts, authKeys, timeoutMs, oldPid, sleeps, slept,
                   pidReads, restarts>>
    /\ UNCHANGED <<keyVars, bootVars, auxVars>>

\* _poll_pid_change after the loop: new_pid = self._read_sshd_pid()
FinalRead ==
    /\ rpc = "loop"
    /\ polls >= TimeoutS(timeoutMs)
    /\ pc = "idle"
    /\ ReadPidFile
    /\ rpc' = "final"
    /\ UNCHANGED <<netId, openPorts, authKeys, timeoutMs, rres, rexit, oldPid,
                   newPid, polls, sleeps, slept, restarts, allSame, sawAbsent>>
    /\ UNCHANGED <<keyVars, bootVars, auxVars>>

\* _poll_pid_change after the loop: the tests of new_pid
FinalReturned ==
    /\ rpc = "final"
    /\ pc = "return"
    /\ caller = "restart_openssh_server"
    /\ LET pid == ReadSshdPid(pend, data)
       IN  /\ newPid' = pid
           /\ allSame' = (allSame /\ pid = oldPid)
           /\ sawAbsent' = (sawAbsent \/ ~pid.present)
           /\ rres' = FinalOutcome(pid, oldPid)
    /\ rexit' = "final"
    /\ rpc' = "done"
    /\ Idle
    /\ UNCHANGED <<netId, openPorts, authKeys, timeoutMs, oldPid, polls, sleeps,
                   slept, pidReads, restarts>>
    /\ UNCHANGED <<keyVars, bootVars, auxVars>>

RestartSteps ==
    \/ RestartStart \/ RestartCaptured \/ RestartIssued
    \/ PollSleep \/ PollRead \/ PollReturned
    \/ FinalRead \/ FinalReturned

InitRestart ==
    /\ netId \in NetIds
    /\ openPorts = {}
    /\ authKeys \in {Absent, <<"a", NL>>}
    /\ op = "none"
    /\ args = NoArgs
    /\ caller = "none"
    /\ pc = "idle"
    /\ port = 0
    /\ handle = 0
    /\ cleanup = <<>>
    /\ pend = NoPend
    /\ data = <<>>
    /\ trace = <<>>
    /\ KeyUnused
    /\ timeoutMs \in TimeoutsMs
    /\ rpc = "start"
    /\ rres = NoPend
    /\ rexit = "none"
    /\ oldPid = PidNone
    /\ newPid = PidNone
    /\ polls = 0
    /\ sleeps = 0
    /\ slept = 0
    /\ pidReads = 0
    /\ restarts = 0
    /\ allSame = TRUE
    /\ sawAbsent = FALSE
    /\ BootUnused
    /\ AddrUnused
    /\ SshUnused
    /\ CliUnused
    /\ SideUnused

NextRestart ==
    \/ RestartSteps
    \/ ConnectSteps
    \/ FileSteps \/ FRead
    \/ StartProcess

SpecRestart == InitRestart /\ [][NextRestart]_vars

----------------------------------------------------------------------------
\* Properties of restart_openssh_server

RestartDone == rpc = "done"
StartProcessWrites ==
    {i \in Indices : trace[i].call = "write"
                     /\ trace[i].group = SYSTEMSERVICE_STARTPROCESS}
AfterCapture == rpc \notin {"start", "capture"}

\* C7: when the PID read taken before the restart is absent, the restart
\* has failed with the service-not-running error and no sleep, no restart
\* command and no start-process write has been made.
C7_NoPidNoRestart ==
    (AfterCapture /\ ~oldPid.present) =>
      /\ RestartDone
      /\ rres = Exc("service-not-running", 0)
      /\ sleeps = 0
      /\ restarts = 0
      /\ pidReads = 1
      /\ op # "run_command"
      /\ StartProcessWrites = {}

\* C7 witness: the restart ended at the capture, after its single PID read
C7_Witness ==
    /\ RestartDone
    /\ rexit = "capture"
    /\ ~oldPid.present
    /\ rres = Exc("service-not-running", 0)
    /\ pidReads = 1
    /\ restarts = 0

\* C8: each poll is preceded by one sleep of one second; polling ends with
\* success at the first poll whose read is present and differs from the
\* captured PID, the k-th poll with k <= timeout_ms div 1000, after exactly
\* k sleeps and k + 1 PID reads; while polling goes on the last poll read
\* was absent or equal to the captured PID.
C8_PollUntilChange ==
    /\ slept = sleeps
    /\ rpc \in {"slept", "polling"} => (sleeps = polls + 1)
    /\ rpc = "polling" => (pidReads = polls + 2)
    /\ rpc \in {"loop", "slept", "polling", "final"} =>
         /\ ~(newPid.present /\ newPid # oldPid)
         /\ rres = NoPend
    /\ (RestartDone /\ rexit = "poll") =>
         /\ rres = Ret("0")
         /\ newPid.present /\ newPid # oldPid
         /\ polls >= 1
         /\ polls <= timeoutMs \div 1000
         /\ sleeps = polls
         /\ pidReads = polls + 1

\* C8 witness: success at the second poll after an absent first one
C8_Witness ==
    /\ RestartDone
    /\ rexit = "poll"
    /\ polls = 2
    /\ sawAbsent
    /\ sleeps = 2
    /\ pidReads = 3

\* C9: when every PID read after the restart command equals the captured
\* PID, the restart fails with pid-unchanged-after-timeout after exactly
\* timeout_ms div 1000 sleeps.
C9_UnchangedAfterTimeout ==
    (RestartDone /\ rexit \in {"poll", "final"} /\ allSame) =>
      /\ rexit = "final"
      /\ rres = Exc("pid-unchanged-after-timeout", 0)
      /\ sleeps = timeoutMs \div 1000
      /\ slept = timeoutMs \div 1000

\* C9 witness: a timeout that is not a whole number of seconds
C9_Witness ==
    /\ RestartDone
    /\ allSame
    /\ rexit = "final"
    /\ timeoutMs % 1000 # 0
    /\ sleeps >= 2

\* C10: after the last poll exactly one more PID read is made, and that read
\* alone decides the failure: absent gives pid-file-missing-after-timeout,
\* present and equal to the captured PID gives pid-unchanged-after-timeout.
C10_FinalReadDecides ==
    /\ rpc = "final" => (pidReads = timeoutMs \div 1000 + 2)
    /\ (RestartDone /\ rexit = "final") =>
         /\ pidReads = timeoutMs \div 1000 + 2
         /\ polls = timeoutMs \div 1000
         /\ (rres = Exc("pid-file-missing-after-timeout", 0)) <=> ~newPid.present
         /\ (rres = Exc("pid-unchanged-after-timeout", 0)) <=>
              (newPid.present /\ newPid = oldPid)
         /\ rres.kind = "exc" =>
              rres.type \in {"pid-file-missing-after-timeout",
                             "pid-unchanged-after-timeout"}

\* C10 witness: polls that read an absent PID, a final read equal to the
\* captured one
C10_Witness ==
    /\ RestartDone
    /\ rexit = "final"
    /\ sawAbsent
    /\ polls >= 1
    /\ rres = Exc("pid-unchanged-after-timeout", 0)

----------------------------------------------------------------------------
\* ADSSSHKeyManager.test_ssh_connection and check_ssh_connection: the same
\* retry loop around two different ssh command lines

SshFunctions == {"test_ssh_connection", "check_ssh_connection"}

\* What one subprocess.run call can do: return with an exit code, or raise
RunOutcomes == {"exit0", "exit255", "TimeoutExpired", "OSError", "FileNotFoundError"}
Retried == {"exit255", "TimeoutExpired", "OSError"}

SleepsAfter_always(n, max_retries) == TRUE

\* if attempt < max_retries: time.sleep(1)
SleepsAfter(n, max_retries) == n < max_retries

\* for attempt in range(1, max_retries + 1), and return False after the loop
SshNext ==
    /\ spc = "loop"
    /\ IF attempt + 1 <= maxRetries
       THEN attempt' = attempt + 1 /\ spc' = "run" /\ UNCHANGED sres
       ELSE sres' = Ret("False") /\ spc' = "done" /\ UNCHANGED attempt
    /\ UNCHANGED <<sfn, maxRetries, sshLog, sshSlept>>
    /\ UNCHANGED <<opVars, keyVars, restartVars, bootVars, addrVars, cliVars, sideVars>>

\* subprocess.run, the test of its return code and the two except clauses
SshRun ==
    /\ spc = "run"
    /\ \E outcome \in RunOutcomes :
         /\ sshLog' = Append(sshLog, outcome)
         /\ CASE outcome = "exit0" ->
                   sres' = Ret("True") /\ spc' = "done"
              [] outcome = "FileNotFoundError" ->
                   sres' = Exc("FileNotFoundError", 0) /\ spc' = "done"
              [] OTHER ->
                   spc' = "after" /\ UNCHANGED sres
    /\ UNCHANGED <<sfn, maxRetries, attempt, sshSlept>>
    /\ UNCHANGED <<opVars, keyVars, restartVars, bootVars, addrVars, cliVars, sideVars>>

\* The end of the loop body: the sleep before the next attempt
SshAfter ==
    /\ spc = "after"
    /\ IF SleepsAfter(attempt, maxRetries)
       THEN sshLog' = Append(sshLog, "sleep") /\ sshSlept' = sshSlept + 1
       ELSE UNCHANGED <<sshLog, sshSlept>>
    /\ spc' = "loop"
    /\ UNCHANGED <<sfn, maxRetries, attempt, sres>>
    /\ UNCHANGED <<opVars, keyVars, restartVars, bootVars, addrVars, cliVars, sideVars>>

----------------------------------------------------------------------------
\* Tcpkgman._ssh_init_interactive

BootCaller == "_ssh_init_interactive"
GeneratedKey == <<"a", NL>>
BootRemoteContents == {Absent, <<>>, <<"a", NL>>, <<"a", "a", NL>>}

\* SSH_KEY_TYPES, the key names in order of preference
SSH_KEY_TYPES == <<"id_ed25519", "id_rsa">>

\* str(key_path) + ".pub"
PubOf(key_name) ==
    CASE key_name = "id_ed25519" -> "id_ed25519.pub"
      [] key_name = "id_rsa" -> "id_rsa.pub"

NoPath == "None"

\* find_default_public_key: the first public key file that exists
FindDefaultPublicKey(dir) ==
    IF \E i \in 1..Len(SSH_KEY_TYPES) : PubOf(SSH_KEY_TYPES[i]) \in dir
    THEN PubOf(SSH_KEY_TYPES[CHOOSE i \in 1..Len(SSH_KEY_TYPES) :
                 /\ PubOf(SSH_KEY_TYPES[i]) \in dir
                 /\ \A j \in 1..(i - 1) : PubOf(SSH_KEY_TYPES[j]) \notin dir])
    ELSE NoPath

\* generate_key before it runs ssh-keygen: the two tests of the files of
\* the one key type it was asked for
GenerateKeyTest(dir, key_name) ==
    IF key_name \in dir /\ PubOf(key_name) \in dir THEN "exists"
    ELSE IF key_name \in dir /\ PubOf(key_name) \notin dir THEN "inconsistent"
    ELSE "ssh-keygen"

\* What the ssh-keygen subprocess can do
KeygenOutcomes == {"exit0", "exit1", "FileNotFoundError"}

\* check_ssh_connection(self, max_retries: int = 3)
DefaultSshRetries == 3

Step(name, ev) == [step |-> name, ev |-> ev]
Ended(p) == IF p.kind = "exc" THEN "exc" ELSE "ret"

MapBootError_letsThrough(e) ==
    IF e.type = "ADSError" /\ e.code \notin {7, 1861} THEN e
    ELSE IF e.type # "ADSError" THEN e
    ELSE IF e.code = 7 THEN Exc("target-not-found", 0)
    ELSE Exc("target-timeout", 0)

MapBootError_ignoresOtherCodes(e) ==
    IF e.type # "ADSError" THEN e
    ELSE IF e.code = 7 THEN Exc("target-not-found", 0)
    ELSE IF e.code = 1861 THEN Exc("target-timeout", 0)
    ELSE Ret("ignored")

\* except ADSError as e: the RuntimeError chosen by e.code
MapBootError(e) ==
    IF e.type # "ADSError" THEN e
    ELSE IF e.code = 7 THEN Exc("target-not-found", 0)
    ELSE IF e.code = 1861 THEN Exc("target-timeout", 0)
    ELSE Exc("ads-error", e.code)

StepRaised_never(p) == FALSE

\* A call made inside the try block raised: the statements after it are
\* skipped and the except clause decides how the function ends
StepRaised(p) == p.kind = "exc"

\* _ssh_init_interactive up to manager.check_connection()
BootStart ==
    /\ bpc = "start"
    /\ pc = "idle"
    /\ \/ /\ bres' = Exc("router-not-installed", 0)
          /\ bpc' = "done"
          /\ UNCHANGED <<opVars, bootLog>>
       \/ /\ Begin("check_connection", NoArgs, BootCaller)
          /\ bpc' = "check"
          /\ bootLog' = Append(bootLog, Step("check_connection", "start"))
          /\ UNCHANGED <<bres, netId, openPorts, authKeys>>
    /\ UNCHANGED <<sshDir, keygens, keyVars, restartVars, auxVars>>

\* check_connection returned or raised
BootConnected ==
    /\ bpc = "check"
    /\ pc = "return"
    /\ caller = BootCaller
    /\ IF StepRaised(pend)
       THEN bres' = MapBootError(pend) /\ bpc' = "done"
       ELSE bpc' = "key" /\ UNCHANGED bres
    /\ bootLog' = Append(bootLog, Step("check_connection", Ended(pend)))
    /\ Idle
    /\ UNCHANGED <<netId, openPorts, authKeys, sshDir, keygens, keyVars,
                   restartVars, auxVars>>

\* find_default_public_key, and the offer to generate a key when none exists
BootFindKey ==
    /\ bpc = "key"
    /\ IF FindDefaultPublicKey(sshDir) # NoPath
       THEN /\ bpc' = "confirm"
            /\ UNCHANGED <<bres, localKey, sshDir, keygens>>
       ELSE \/ /\ bres' = Ret("cancelled")
               /\ bpc' = "done"
               /\ UNCHANGED <<localKey, sshDir, keygens>>
            \/ /\ GenerateKeyTest(sshDir, "id_ed25519") = "inconsistent"
               /\ bres' = Exc("key-inconsistent", 0)
               /\ bpc' = "done"
               /\ UNCHANGED <<localKey, sshDir, keygens>>
            \/ /\ GenerateKeyTest(sshDir, "id_ed25519") = "ssh-keygen"
               /\ keygens' = keygens + 1
               /\ \E r \in KeygenOutcomes :
                    IF r = "exit0"
                    THEN /\ sshDir' = sshDir \cup {"id_ed25519", PubOf("id_ed25519")}
                         /\ localKey' = GeneratedKey
                         /\ bpc' = "confirm"
                         /\ UNCHANGED bres
                    ELSE /\ bres' = IF r = "exit1" THEN Exc("keygen-failed", 0)
                                    ELSE Exc("FileNotFoundError", 0)
                         /\ bpc' = "done"
                         /\ UNCHANGED <<localKey, sshDir>>
    /\ UNCHANGED <<opVars, keyContent, existing, kpc, kres, writeCalls, written,
                   authKeys0, bootLog, restartVars, auxVars>>

\* The confirmation prompt before manager.copy_ssh_key(key_path)
BootConfirm ==
    /\ bpc = "confirm"
    /\ \/ /\ kpc' = "start"
          /\ bpc' = "copy"
          /\ bootLog' = bootLog \o <<Step("confirm", "y"),
                                     Step("copy_ssh_key", "start")>>
          /\ UNCHANGED bres
       \/ /\ bres' = Ret("cancelled")
          /\ bpc' = "done"
          /\ bootLog' = Append(bootLog, Step("confirm", "n"))
          /\ UNCHANGED kpc
    /\ UNCHANGED <<opVars, localKey, keyContent, existing, kres, writeCalls, written,
                   authKeys0, sshDir, keygens, restartVars, auxVars>>

AfterCopy_skipsWhenPresent(writes) == IF writes = 0 THEN "ssh" ELSE "restart"

\* The statement after manager.copy_ssh_key(key_path) is the restart,
\* whether or not copy_ssh_key wrote
AfterCopy(writes) == "restart"

\* copy_ssh_key returned or raised; manager.restart_openssh_server()
BootCopied ==
    /\ bpc = "copy"
    /\ kpc = "done"
    /\ IF StepRaised(kres)
       THEN /\ bres' = MapBootError(kres)
            /\ bpc' = "done"
            /\ bootLog' = Append(bootLog, Step("copy_ssh_key", "exc"))
            /\ UNCHANGED <<rpc, timeoutMs>>
       ELSE /\ rpc' = "start"
            /\ timeoutMs' = DefaultRestartTimeoutMs
            /\ bpc' = AfterCopy(writeCalls)
            /\ bootLog' = bootLog \o <<Step("copy_ssh_key", "ret"),
                                       Step("restart_openssh_server", "start")>>
            /\ UNCHANGED bres
    /\ UNCHANGED <<opVars, keyVars, rres, rexit, oldPid, newPid, polls, sleeps,
                   slept, pidReads, restarts, allSame, sawAbsent, sshDir, keygens,
                   auxVars>>

\* restart_openssh_server returned or raised; manager.check_ssh_connection()
BootRestarted ==
    /\ bpc = "restart"
    /\ rpc = "done"
    /\ IF StepRaised(rres)
       THEN /\ bres' = MapBootError(rres)
            /\ bpc' = "done"
            /\ bootLog' = Append(bootLog, Step("restart_openssh_server", "exc"))
            /\ UNCHANGED <<sfn, maxRetries, spc>>
       ELSE /\ sfn' = "check_ssh_connection"
            /\ maxRetries' = DefaultSshRetries
            /\ spc' = "loop"
            /\ bpc' = "ssh"
            /\ bootLog' = bootLog \o <<Step("restart_openssh_server", "ret"),
                                       Step("check_ssh_connection", "start")>>
            /\ UNCHANGED bres
    /\ UNCHANGED <<opVars, keyVars, restartVars, sshDir, keygens, attempt, sres,
                   sshLog, sshSlept, addrVars, cliVars, sideVars>>

\* check_ssh_connection returned or raised, and the message printed for
\* its result
BootSshChecked ==
    /\ bpc = "ssh"
    /\ spc = "done"
    /\ bres' = IF StepRaised(sres) THEN MapBootError(sres)
               ELSE IF sres = Ret("True") THEN Ret("ssh-ok") ELSE Ret("ssh-failed")
    /\ bootLog' = Append(bootLog, Step("check_ssh_connection", Ended(sres)))
    /\ bpc' = "done"
    /\ UNCHANGED <<opVars, keyVars, restartVars, sshDir, keygens, auxVars>>

BootSteps ==
    \/ BootStart \/ BootConnected \/ BootFindKey \/ BootConfirm
    \/ BootCopied \/ BootRestarted \/ BootSshChecked

\* The local .ssh directories a run starts with: empty, one complete pair,
\* a private key alone, and a complete pair next to a private key alone
BootSshDirs ==
    {{}, {"id_ed25519", "id_ed25519.pub"}, {"id_ed25519"}, {"id_rsa"},
     {"id_ed25519", "id_rsa", "id_rsa.pub"}}

\* The text of the public key file that find_default_public_key finds
FoundKeyText(dir) == IF FindDefaultPublicKey(dir) = NoPath THEN Absent ELSE <<"a">>

InitBoot ==
    /\ netId \in NetIds
    /\ openPorts = {}
    /\ authKeys \in BootRemoteContents
    /\ op = "none"
    /\ args = NoArgs
    /\ caller = "none"
    /\ pc = "idle"
    /\ port = 0
    /\ handle = 0
    /\ cleanup = <<>>
    /\ pend = NoPend
    /\ data = <<>>
    /\ trace = <<>>
    /\ sshDir \in BootSshDirs
    /\ localKey = FoundKeyText(sshDir)
    /\ keyContent = <<>>
    /\ existing = None
    /\ kpc = "unused"
    /\ kres = NoPend
    /\ writeCalls = 0
    /\ written = <<>>
    /\ authKeys0 = authKeys
    /\ RestartUnused
    /\ bpc = "start"
    /\ bres = NoPend
    /\ keygens = 0
    /\ bootLog = <<>>
    /\ AddrUnused
    /\ SshUnused
    /\ CliUnused
    /\ SideUnused

NextBoot ==
    \/ BootSteps
    \/ KeySteps
    \/ RestartSteps
    \/ ConnectSteps
    \/ ReadState
    \/ FileSteps \/ FRead \/ FWrite
    \/ StartProcess
    \/ SshNext \/ SshRun \/ SshAfter

SpecBoot == InitBoot /\ [][NextBoot]_vars

\* The same bootstrap started from fewer remote files and key directories
FlowRemoteContents == {Absent, <<"a", NL>>}
FlowSshDirs == {{"id_ed25519", "id_ed25519.pub"}, {"id_ed25519"}}

InitFlow ==
    /\ InitBoot
    /\ authKeys \in FlowRemoteContents
    /\ sshDir \in FlowSshDirs

SpecFlow == InitFlow /\ [][NextBoot]_vars

----------------------------------------------------------------------------
\* Properties of the bootstrap

BootFailed == bpc = "done" /\ bres.kind = "exc"

\* The remote file holds the local key as a complete line
HoldsKeyLine(content, key) ==
    /\ content # Absent
    /\ IsSubstring(Strip(key) \o <<NL>>, content)
    /\ \E i \in 1..Len(SplitLines(content)) : SplitLines(content)[i] = Strip(key)

\* C6 (as claimed): after a failed bootstrap the remote authorized-keys file
\* is what it was before the run or holds the complete new key line.
C6_FailedBootKeepsFile ==
    BootFailed => (authKeys = authKeys0 \/ HoldsKeyLine(authKeys, localKey))

----------------------------------------------------------------------------
\* Properties of file_exists, the file close, write_file and check_connection

StatusExchanges ==
    {i \in Indices : trace[i].call = "read_write"
                     /\ trace[i].group = SYSTEMSERVICE_FGETSTATUS}
DataExchanges == {i \in Indices : trace[i].group \in {SYSTEMSERVICE_FREAD, SYSTEMSERVICE_FWRITE}}
StateProbes == {i \in Indices : trace[i].call = "read_state"}
PortCloseFailed == \E i \in Indices : IsPortClose(trace[i]) /\ ~trace[i].ok
FileCloseFailed == \E i \in FileCloses : ~trace[i].ok

\* C11 (as claimed): file_exists returns True when its get-status exchange
\* succeeded and False when it failed, whatever the later port close does.
C11_ExistsFollowsStatus ==
    (Finished /\ op = "file_exists") =>
      \A i \in StatusExchanges :
        pend = (IF trace[i].ok THEN Ret("True") ELSE Ret("False"))

\* C12: whatever the file close answered, read_file and write_file end as
\* their data exchange ended: with the value when it succeeded, with the
\* ADSError of its status when it failed (the port close having succeeded).
C12_CloseFailureInvisible ==
    (Finished /\ op \in {"read_file", "write_file"} /\ ~PortCloseFailed) =>
      \A i \in DataExchanges :
        IF trace[i].ok
        THEN pend = (IF op = "read_file" THEN Ret("str") ELSE Ret("None"))
        ELSE pend = Exc("ADSError", trace[i].status)

\* C12 witness: read_file returned its data although the file close failed
C12_Witness ==
    /\ Finished
    /\ op = "read_file"
    /\ FileCloseFailed
    /\ ~PortCloseFailed
    /\ \E i \in DataExchanges : trace[i].ok
    /\ pend = Ret("str")

\* C13 (as claimed): write_file sends its data with exactly one write-only
\* exchange to group 123 keyed by the handle, and with no read/write exchange.
C13_DataByWriteOnly ==
    (Finished /\ op = "write_file" /\ handle # 0) =>
      /\ Cardinality({i \in Indices : /\ trace[i].call = "write"
                                      /\ trace[i].group = SYSTEMSERVICE_FWRITE
                                      /\ trace[i].offset = handle}) = 1
      /\ \A i \in Indices :
           trace[i].group = SYSTEMSERVICE_FWRITE => trace[i].call # "read_write"

\* C13 (amended): write_file sends its data with exactly one combined
\* read/write exchange to group 123, keyed by the handle the preceding open
\* returned and carrying the content; no write-only exchange goes to group
\* 123, and without a handle no data exchange is made.
C13_DataByReadWrite ==
    (Finished /\ op = "write_file") =>
      /\ Cardinality(DataExchanges) = (IF handle # 0 THEN 1 ELSE 0)
      /\ \A i \in DataExchanges :
           /\ trace[i].call = "read_write"
           /\ trace[i].group = SYSTEMSERVICE_FWRITE
           /\ trace[i].offset = handle
           /\ trace[i].payload = args.content
           /\ \E j \in 1..(i - 1) : IsFileOpen(trace[j]) /\ trace[j].ok

\* C13 witness: write_file returned after its data exchange succeeded
C13_Witness ==
    /\ Finished
    /\ op = "write_file"
    /\ handle # 0
    /\ args.content # <<>>
    /\ \E i \in DataExchanges : trace[i].ok
    /\ pend = Ret("None")

----------------------------------------------------------------------------
\* Properties of run_command

\* struct.unpack('<I', bytes)
Unpack32(b) == b[1] + 256 * b[2] + 65536 * b[3] + 16777216 * b[4]

ByteWidth(c) == IF c = EAcute THEN 2 ELSE 1

RECURSIVE ByteLen(_)
ByteLen(s) == IF s = <<>> THEN 0 ELSE ByteWidth(Head(s)) + ByteLen(Tail(s))

HasToken(command) == \E i \in 1..Len(command) : command[i] \notin Whitespace

\* The first whitespace-delimited token of a command that has one
TokenStart(command) ==
    CHOOSE i \in 1..Len(command) :
      command[i] \notin Whitespace /\ \A k \in 1..(i - 1) : command[k] \in Whitespace
TokenEnd(command) ==
    CHOOSE j \in TokenStart(command)..Len(command) :
      /\ \A k \in TokenStart(command)..j : command[k] \notin Whitespace
      /\ j = Len(command) \/ command[j + 1] \in Whitespace
FirstToken(command) == SubSeq(command, TokenStart(command), TokenEnd(command))

\* What follows the first token and the whitespace after it
RestAfterToken(command) ==
    LET later == {k \in (TokenEnd(command) + 1)..Len(command) :
                    command[k] \notin Whitespace}
    IN  IF later = {} THEN <<>>
        ELSE SubSeq(command, CHOOSE m \in later : \A k \in later : m <= k,
                    Len(command))

\* C14: the routing offset of the start-process write is timeout_ms mod 65536
\* plus 65536 when hide_window is true; bit 16 is set exactly when
\* hide_window is true and no higher bit is set.
C14_RoutingOffset ==
    \A i \in StartProcessWrites :
      LET offset == trace[i].offset
      IN  /\ offset = (args.timeout_ms % 65536)
                      + (IF args.hide_window THEN 65536 ELSE 0)
          /\ ((offset \div 65536) % 2 = 1) <=> args.hide_window
          /\ offset >= 0
          /\ offset < 131072

\* C14 witness: a timeout above 16 bits, hidden window
C14_Witness ==
    /\ op = "run_command"
    /\ args.timeout_ms = 75536
    /\ args.hide_window
    /\ \E i \in StartProcessWrites : trace[i].offset = 75536

\* C15: the record of the start-process write begins with three 32-bit
\* little-endian lengths, the byte lengths of the executable (the first
\* whitespace-delimited token; the command itself when it has no token), the
\* working directory and the argument string (the rest of the command); the
\* three strings follow, each ended by one NUL, so the record is 12 + the
\* lengths + 3 bytes long and each string is read back by skipping length + 1
\* bytes per field.
C15_RecordLayout ==
    \A i \in StartProcessWrites :
      LET hdr == trace[i].hdr
          body == trace[i].payload
          l1 == Unpack32(SubSeq(hdr, 1, 4))
          l2 == Unpack32(SubSeq(hdr, 5, 8))
          l3 == Unpack32(SubSeq(hdr, 9, 12))
          o2 == l1 + 1
          o3 == o2 + l2 + 1
          f1 == SubSeq(body, 1, l1)
          f2 == SubSeq(body, o2 + 1, o2 + l2)
          f3 == SubSeq(body, o3 + 1, o3 + l3)
      IN  /\ Len(hdr) = 12
          /\ Len(hdr) + Len(body) = 12 + l1 + l2 + l3 + 3
          /\ body[l1 + 1] = NUL /\ body[o2 + l2 + 1] = NUL /\ body[o3 + l3 + 1] = NUL
          /\ l2 = ByteLen(args.working_dir)
          /\ f2 = Utf8(args.working_dir)
          /\ IF HasToken(args.command)
             THEN /\ l1 = ByteLen(FirstToken(args.command))
                  /\ f1 = Utf8(FirstToken(args.command))
                  /\ l3 = ByteLen(RestAfterToken(args.command))
                  /\ f3 = Utf8(RestAfterToken(args.command))
             ELSE /\ l1 = ByteLen(args.command) /\ f1 = Utf8(args.command)
                  /\ l3 = 0

\* C15 witness: a command with an executable and arguments of two bytes per
\* character, in a working directory
C15_Witness ==
    /\ op = "run_command"
    /\ args.command = <<EAcute, SP, EAcute>>
    /\ args.working_dir = <<"a", EAcute>>
    /\ \E i \in StartProcessWrites :
         /\ trace[i].hdr = <<2, 0, 0, 0, 3, 0, 0, 0, 2, 0, 0, 0>>
         /\ Len(trace[i].payload) = 10

\* C16: run_command makes one exchange, a write to group 500, and no read;
\* once that write is accepted it returns 0 (the port close having
\* succeeded), and it returns nothing else.
C16_FireAndForget ==
    op = "run_command" =>
      /\ Cardinality(StartProcessWrites) <= 1
      /\ \A i \in Indices : IsExchange(trace[i]) => i \in StartProcessWrites
      /\ (pc \in {"unwind", "return"} /\ ~PortCloseFailed) =>
           ((\E i \in StartProcessWrites : trace[i].ok) <=> pend = Ret("0"))
      /\ (Finished /\ pend.kind = "ret") =>
           /\ pend = Ret("0")
           /\ \E i \in StartProcessWrites : trace[i].ok

\* C16 witness: a command was accepted and run_command returned 0
C16_Witness ==
    /\ Finished
    /\ op = "run_command"
    /\ HasToken(args.command)
    /\ Cardinality(StartProcessWrites) = 1
    /\ pend = Ret("0")

----------------------------------------------------------------------------
\* AmsAddr.__init__ and AmsNetId.from_string

\* str.split(sep) for a one-character separator
RECURSIVE SplitOn(_, _)
SplitOn(s, sep) ==
    IF \E i \in 1..Len(s) : s[i] = sep
    THEN LET i == CHOOSE k \in 1..Len(s) :
                    s[k] = sep /\ \A j \in 1..(k - 1) : s[j] # sep
         IN  <<SubSeq(s, 1, i - 1)>> \o SplitOn(SubSeq(s, i + 1, Len(s)), sep)
    ELSE <<s>>

\* int(p): whitespace around the number is ignored
IntOf(p) == ParseInt(Strip(p))

\* [int(p) for p in net_id.split('.')]: raises unless every part is a number
AllInts(texts) == \A i \in 1..Len(texts) : IntOf(texts[i]).present
IntsOf(texts) == [i \in 1..Len(texts) |-> IntOf(texts[i]).value]

FromStringLenOk_atLeastSix(parts) == Len(parts) >= 6

\* from_string: if len(parts) != 6: raise ValueError
FromStringLenOk(parts) == Len(parts) = 6

\* Storing an integer in a c_ubyte keeps its low eight bits
UByte(n) == n % 256

\* from_string: for i in range(6): addr.b[i] = parts[i]
AssignBytes(parts) == [i \in 1..6 |-> UByte(parts[i])]

ZeroBytes == <<0, 0, 0, 0, 0, 0>>

\* AmsAddr.__init__: if net_id:
AddrInit ==
    /\ apc = "AmsAddr"
    /\ IF idText = <<>>
       THEN ares' = Ret("skipped") /\ apc' = "done"
       ELSE apc' = "from_string" /\ UNCHANGED ares
    /\ UNCHANGED <<idText, idParts, addrBytes>>
    /\ UNCHANGED <<opVars, keyVars, restartVars, bootVars, sshVars, cliVars, sideVars>>

\* from_string: parts = [int(p) for p in net_id.split('.')]
AddrParse ==
    /\ apc = "from_string"
    /\ LET texts == SplitOn(idText, ".")
       IN  IF AllInts(texts)
           THEN idParts' = IntsOf(texts) /\ apc' = "check" /\ UNCHANGED ares
           ELSE ares' = Exc("ValueError", 0) /\ apc' = "done" /\ UNCHANGED idParts
    /\ UNCHANGED <<idText, addrBytes>>
    /\ UNCHANGED <<opVars, keyVars, restartVars, bootVars, sshVars, cliVars, sideVars>>

\* from_string: the test of len(parts)
AddrCheck ==
    /\ apc = "check"
    /\ IF FromStringLenOk(idParts)
       THEN apc' = "assign" /\ UNCHANGED ares
       ELSE ares' = Exc("ValueError", 0) /\ apc' = "done"
    /\ UNCHANGED <<idText, idParts, addrBytes>>
    /\ UNCHANGED <<opVars, keyVars, restartVars, bootVars, sshVars, cliVars, sideVars>>

\* from_string: the six assignments and the return
AddrAssign ==
    /\ apc = "assign"
    /\ addrBytes' = AssignBytes(idParts)
    /\ ares' = Ret("AmsNetId")
    /\ apc' = "done"
    /\ UNCHANGED <<idText, idParts>>
    /\ UNCHANGED <<opVars, keyVars, restartVars, bootVars, sshVars, cliVars, sideVars>>

\* The strings tried: up to MaxComponents components joined by dots, and a
\* few strings with a component that is empty, padded or not a number
ComponentTexts == {<<"7">>, <<"2", "5", "5">>, <<"2", "5", "6">>, <<"-", "1">>}

RECURSIVE DottedUpTo(_)
DottedUpTo(n) ==
    IF n = 1 THEN ComponentTexts
    ELSE LET shorter == DottedUpTo(n - 1)
         IN  shorter \cup {s \o <<".">> \o c : s \in shorter, c \in ComponentTexts}

IdTexts ==
    DottedUpTo(MaxComponents)
    \cup {<<>>, <<"x">>,
          <<"7", ".", "x", ".", "7", ".", "7", ".", "7", ".", "7">>,
          <<"7", ".", ".", "7", ".", "7", ".", "7", ".", "7">>,
          <<"7", ".", ".", "7", ".", "7", ".", "7", ".", "7", ".", "7">>,
          <<SP, "7", ".", "7", ".", "7", ".", "7", ".", "7", ".", "7", NL>>}

\* No ADSInterface operation is running
OpsUnused ==
    /\ netId = GoodNetId
    /\ openPorts = {}
    /\ authKeys = Absent
    /\ op = "none"
    /\ args = NoArgs
    /\ caller = "none"
    /\ pc = "idle"
    /\ port = 0
    /\ handle = 0
    /\ cleanup = <<>>
    /\ pend = NoPend
    /\ data = <<>>
    /\ trace = <<>>

InitAddr ==
    /\ OpsUnused
    /\ KeyUnused
    /\ RestartUnused
    /\ BootUnused
    /\ SshUnused
    /\ CliUnused
    /\ SideUnused
    /\ idText \in IdTexts
    /\ apc \in {"AmsAddr", "from_string"}
    /\ idParts = <<>>
    /\ addrBytes = ZeroBytes
    /\ ares = NoPend

NextAddr == AddrInit \/ AddrParse \/ AddrCheck \/ AddrAssign

SpecAddr == InitAddr /\ [][NextAddr]_vars

----------------------------------------------------------------------------
\* Properties of the address construction

NumComponents(text) == Cardinality({i \in 1..Len(text) : text[i] = "."}) + 1

\* The decimal numeral of a natural number
RECURSIVE Decimal(_)
Decimal(n) ==
    IF n < 10 THEN <<DigitChar(n)>>
    ELSE Decimal(n \div 10) \o <<DigitChar(n % 10)>>

ByteTexts == {Decimal(v) : v \in 0..255}
ByteOf(c) == CHOOSE v \in 0..255 : Decimal(v) = c

FromStringRan == apc = "done" /\ ares # Ret("skipped")

\* C17: from_string fails for every string whose number of dot-separated
\* components is not six, and maps a string of six numerals of 0..255 to the
\* address whose bytes are those six numbers in order.
C17_FromStringRoundTrip ==
    FromStringRan =>
      LET comps == SplitOn(idText, ".")
      IN  /\ NumComponents(idText) # 6 =>
               (ares = Exc("ValueError", 0) /\ addrBytes = ZeroBytes)
          /\ (NumComponents(idText) = 6 /\ \A i \in 1..6 : comps[i] \in ByteTexts) =>
               /\ ares = Ret("AmsNetId")
               /\ \A i \in 1..6 : addrBytes[i] = ByteOf(comps[i])

\* C17 witness: 7.255.7.7.255.7 became the bytes 7, 255, 7, 7, 255, 7
C17_Witness ==
    /\ apc = "done"
    /\ idText = <<"7", ".", "2", "5", "5", ".", "7", ".", "7", ".",
                  "2", "5", "5", ".", "7">>
    /\ ares = Ret("AmsNetId")
    /\ addrBytes = <<7, 255, 7, 7, 255, 7>>

\* C18 (as claimed): the construction fails for every string of six numbers
\* of which one lies outside 0..255.
C18_OutOfRangeRejected ==
    LET comps == SplitOn(idText, ".")
    IN  (/\ apc = "done"
         /\ Len(comps) = 6
         /\ AllInts(comps)
         /\ \E i \in 1..6 : IntOf(comps[i]).value \notin 0..255) =>
          ares = Exc("ValueError", 0)

----------------------------------------------------------------------------
\* The specification of the SSH connection tests on their own

InitSsh ==
    /\ OpsUnused
    /\ KeyUnused
    /\ RestartUnused
    /\ BootUnused
    /\ AddrUnused
    /\ CliUnused
    /\ SideUnused
    /\ sfn \in SshFunctions
    /\ maxRetries \in 0..MaxRetries
    /\ attempt = 0
    /\ spc = "loop"
    /\ sres = NoPend
    /\ sshLog = <<>>
    /\ sshSlept = 0

NextSsh == SshNext \/ SshRun \/ SshAfter

SpecSsh == InitSsh /\ [][NextSsh]_vars

----------------------------------------------------------------------------
\* Properties of the SSH connection tests

SshRuns == {i \in 1..Len(sshLog) : sshLog[i] # "sleep"}
SshSleeps == {i \in 1..Len(sshLog) : sshLog[i] = "sleep"}
SshDone == spc = "done"
LastOutcome == IF sshLog = <<>> THEN "none" ELSE sshLog[Len(sshLog)]

\* C20: at most max_retries attempts are made; every sleep lasts one second
\* and comes between a failed attempt and the next attempt; the function
\* returns True at the first attempt that exits with 0, raises
\* FileNotFoundError at the first attempt that finds no ssh executable, both
\* without a further attempt or sleep, and returns False after max_retries
\* failed attempts and max_retries - 1 sleeps.
C20_BoundedRetries ==
    spc # "unused" =>
      /\ Cardinality(SshRuns) <= maxRetries
      /\ sshSlept = Cardinality(SshSleeps)
      /\ \A i \in SshSleeps : i > 1 /\ sshLog[i - 1] \in Retried
      /\ \A i \in SshRuns : i < Len(sshLog) =>
           (sshLog[i] \in Retried /\ sshLog[i + 1] = "sleep")
      /\ SshDone =>
           /\ LastOutcome # "sleep"
           /\ Cardinality(SshSleeps) =
                (IF SshRuns = {} THEN 0 ELSE Cardinality(SshRuns) - 1)
           /\ sres \in {Ret("True"), Ret("False"), Exc("FileNotFoundError", 0)}
           /\ sres = Ret("True") <=> LastOutcome = "exit0"
           /\ sres = Exc("FileNotFoundError", 0) <=> LastOutcome = "FileNotFoundError"
           /\ sres = Ret("False") =>
                /\ Cardinality(SshRuns) = maxRetries
                /\ Cardinality(SshSleeps) = (IF maxRetries = 0 THEN 0 ELSE maxRetries - 1)

\* C20 witness: three failed attempts, one of them a timeout, two sleeps
C20_Witness ==
    /\ SshDone
    /\ sfn = "check_ssh_connection"
    /\ maxRetries = 3
    /\ sres = Ret("False")
    /\ Cardinality(SshRuns) = 3
    /\ sshSlept = 2
    /\ \E i \in SshRuns : sshLog[i] = "TimeoutExpired"

----------------------------------------------------------------------------
\* Properties of the steps of _ssh_init_interactive

Logged(name, ev) == \E i \in 1..Len(bootLog) : bootLog[i] = Step(name, ev)
BootDone == bpc = "done"
ProbeStarted == Logged("check_ssh_connection", "start")

\* Some private key of the directory has no public key file next to it
Inconsistent(dir) ==
    \E i \in 1..Len(SSH_KEY_TYPES) :
      SSH_KEY_TYPES[i] \in dir /\ PubOf(SSH_KEY_TYPES[i]) \notin dir

\* C21 (as claimed): once the restart has been verified and the SSH probe
\* has started, no remote operation is issued and the remote file is left
\* alone, and the bootstrap ends without raising, whatever the probe does.
C21_ProbeDoesNotAlterResult ==
    ProbeStarted =>
      /\ rres.kind = "ret"
      /\ op = "none"
      /\ openPorts = {}
      /\ BootDone => bres.kind = "ret"

\* C22 (as claimed): when the connection has been checked and a private key
\* of the local directory has no public counterpart, the bootstrap has
\* failed with the key-inconsistency error, no ssh-keygen was run, no key
\* was installed and the remote file is what it was.
C22_InconsistentKeyRejected ==
    (Logged("check_connection", "ret") /\ bpc # "key" /\ Inconsistent(sshDir)) =>
      /\ BootDone
      /\ bres = Exc("key-inconsistent", 0)
      /\ keygens = 0
      /\ kpc = "unused"
      /\ writeCalls = 0
      /\ authKeys = authKeys0

----------------------------------------------------------------------------
\* Properties of the propagation of ADSError

\* An operation of ADSInterface is handing an ADSError to its caller
RaisesAdsError == pc = "return" /\ pend.kind = "exc" /\ pend.type = "ADSError"

\* Some exchange of the operation in progress, other than the file close,
\* was answered with a non-zero status
ExchangeFailed ==
    \E i \in Indices :
      /\ IsExchange(trace[i])
      /\ ~IsFileClose(trace[i])
      /\ trace[i].status # ADSERR_NOERR

BootErrors == {"target-not-found", "target-timeout", "ads-error"}

\* The caller ends with the error it was handed
ToCopy == kpc' = "done" /\ kres' = pend
ToRestart == rpc' = "done" /\ rres' = pend
ToBoot(e) ==
    /\ bpc' = "done"
    /\ bres'.kind = "exc"
    /\ bres'.type \in BootErrors
    /\ bres'.type = "target-not-found" <=> e.code = 7
    /\ bres'.type = "target-timeout" <=> e.code = 1861

\* C23 (as claimed): an ADSError that an operation hands to copy_ssh_key,
\* restart_openssh_server or _ssh_init_interactive ends that caller with the
\* error, whichever call it came from.
C23_AdsErrorAlwaysPropagates ==
    [][RaisesAdsError =>
         /\ caller = "copy_ssh_key" => ToCopy
         /\ caller = "restart_openssh_server" => ToRestart
         /\ caller = BootCaller => ToBoot(pend)]_vars

\* C23: an exchange other than the file close that was answered with a
\* non-zero status makes its operation raise ADSError; that error ends
\* copy_ssh_key when it comes from write_file, restart_openssh_server when it
\* comes from run_command and the bootstrap, as the RuntimeError chosen by
\* its code, when it comes from check_connection or from one of the two;
\* it is discarded when it comes from the read of the authorized-keys file
\* in copy_ssh_key, which goes on to write the key, and from the read of the
\* PID file in _read_sshd_pid, which returns None.
C23_AdsErrorPropagation ==
    [][/\ (ExchangeFailed /\ pc \in {"unwind", "return"})' =>
            (pend.kind = "exc" /\ pend.type = "ADSError")'
       /\ RaisesAdsError =>
            /\ (caller = "copy_ssh_key" /\ op = "write_file") => ToCopy
            /\ (caller = "copy_ssh_key" /\ op = "read_file") =>
                 /\ kpc' = "writing"
                 /\ existing' = None
                 /\ op' = "write_file"
            /\ (caller = "restart_openssh_server" /\ op = "run_command") => ToRestart
            /\ (caller = "restart_openssh_server" /\ op = "read_file") =>
                 /\ IF rpc = "capture" THEN ~oldPid'.present ELSE ~newPid'.present
                 /\ rres' # pend
            /\ caller = BootCaller => ToBoot(pend)
       /\ (bpc = "copy" /\ kpc = "done" /\ kres.type = "ADSError") => ToBoot(kres)
       /\ (bpc = "restart" /\ rpc = "done" /\ rres.type = "ADSError") => ToBoot(rres)
      ]_vars

\* C23 witness: the read of the authorized-keys file raised ADSError and was
\* discarded, the write raised ADSError 1804 and the bootstrap ended with
\* the RuntimeError for an unlisted code.
C23_Witness ==
    /\ BootDone
    /\ existing = None
    /\ writeCalls = 1
    /\ kres = Exc("ADSError", 1804)
    /\ bres = Exc("ads-error", 1804)

----------------------------------------------------------------------------
\* Properties of repetition

\* The calls of one kind made by the operation in progress
CallsOf(kind) ==
    {i \in Indices :
       CASE kind = "port_open" -> trace[i].call = "port_open"
         [] kind = "file_open" -> IsFileOpen(trace[i])
         [] kind = "data" -> IsFileData(trace[i])
         [] kind = "file_close" -> IsFileClose(trace[i])
         [] kind = "port_close" -> IsPortClose(trace[i])
         [] kind = "probe" -> trace[i].call = "read_state"
         [] kind = "start_process" ->
              trace[i].call = "write" /\ trace[i].group = SYSTEMSERVICE_STARTPROCESS}

ExchangeKinds ==
    {"port_open", "file_open", "data", "file_close", "port_close", "probe",
     "start_process"}

\* C24: the operation in progress has made each kind of exchange at most
\* once, and none after its port close; restart_openssh_server has called
\* run_command at most once, never before its first PID read and never
\* after a sleep, exactly once whenever the PID it captured was present,
\* and a failed run_command ends it; the PID read is repeated only by the
\* polling loop, once per sleep and once more at the end; copy_ssh_key calls
\* write_file at most once.
C24_NoReissue ==
    /\ \A kind \in ExchangeKinds : Cardinality(CallsOf(kind)) <= 1
    /\ \A i \in CallsOf("port_close") : \A j \in Indices : j <= i
    /\ restarts <= 1
    /\ restarts = 1 => (pidReads >= 1 /\ oldPid.present)
    /\ (AfterCapture /\ rpc # "unused" /\ oldPid.present) => restarts = 1
    /\ (rpc = "command") => (sleeps = 0 /\ pidReads = 1)
    /\ sleeps > 0 => restarts = 1
    /\ (RestartDone /\ rexit = "command") =>
         (rres.kind = "exc" /\ restarts = 1 /\ pidReads = 1 /\ sleeps = 0)
    /\ pidReads <= sleeps + 2
    /\ sleeps <= timeoutMs \div 1000
    /\ writeCalls <= 1

\* C24 witness: the start-process write of the restart command failed and
\* restart_openssh_server ended there, after one PID read and one command
C24_Witness ==
    /\ RestartDone
    /\ rexit = "command"
    /\ rres.type = "ADSError"
    /\ rres.code = 1804
    /\ restarts = 1
    /\ pidReads = 1

----------------------------------------------------------------------------
\* Properties of the order of the bootstrap steps

RemoteSteps ==
    <<"check_connection", "copy_ssh_key", "restart_openssh_server",
      "check_ssh_connection">>

Rank(name) == CHOOSE k \in 1..Len(RemoteSteps) : RemoteSteps[k] = name
LastLogged == IF bootLog = <<>> THEN Step("none", "none") ELSE bootLog[Len(bootLog)]
Running(k) == LastLogged = Step(RemoteSteps[k], "start")

\* C30: each remote step is started at most once; when it starts, every
\* earlier step of the order check_connection, copy_ssh_key,
\* restart_openssh_server, check_ssh_connection has returned without an
\* exception; a step ends before anything else is started; an exception of
\* a step is the last thing the bootstrap does, which then ends with an
\* exception; the operations of ADSInterface, copy_ssh_key,
\* restart_openssh_server and the SSH probe run only while their step is
\* running; when the user declined the copy confirmation no write_file
\* call, no restart and no probe was made and the remote file is what it
\* was.
C30_StepsInOrder ==
    /\ \A i \in 1..Len(bootLog) :
         /\ \A j \in 1..(i - 1) : bootLog[j] # bootLog[i]
         /\ bootLog[i].ev = "start" =>
              \A e \in 1..(Rank(bootLog[i].step) - 1) :
                \E j \in 1..(i - 1) : bootLog[j] = Step(RemoteSteps[e], "ret")
         /\ bootLog[i].ev \in {"ret", "exc"} =>
              (i > 1 /\ bootLog[i - 1] = Step(bootLog[i].step, "start"))
         /\ bootLog[i].ev = "exc" =>
              (i = Len(bootLog) /\ BootDone /\ bres.kind = "exc")
    /\ op = "check_connection" => Running(1)
    /\ op \in {"read_file", "write_file", "run_command"} => (Running(2) \/ Running(3))
    /\ kpc \notin {"unused", "done"} => Running(2)
    /\ kpc # "unused" => Logged("copy_ssh_key", "start")
    /\ rpc \notin {"unused", "done"} => Running(3)
    /\ rpc # "unused" => Logged("restart_openssh_server", "start")
    /\ spc \notin {"unused", "done"} => Running(4)
    /\ spc # "unused" => Logged("check_ssh_connection", "start")
    /\ BootDone => (op = "none" /\ LastLogged.ev # "start")
    /\ Logged("confirm", "n") =>
         /\ BootDone
         /\ bres = Ret("cancelled")
         /\ writeCalls = 0
         /\ restarts = 0
         /\ kpc = "unused" /\ rpc = "unused" /\ spc = "unused"
         /\ authKeys = authKeys0

\* C30 witness: the restart raised after the connection check and the copy
\* had returned, and the SSH probe was never started
C30_Witness ==
    /\ BootDone
    /\ bootLog = <<Step("check_connection", "start"), Step("check_connection", "ret"),
                   Step("confirm", "y"),
                   Step("copy_ssh_key", "start"), Step("copy_ssh_key", "ret"),
                   Step("restart_openssh_server", "start"),
                   Step("restart_openssh_server", "exc")>>
    /\ writeCalls = 1
    /\ spc = "unused"
    /\ bres.kind = "exc"

----------------------------------------------------------------------------
\* Properties of _read_sshd_pid

\* The integers whose numerals the PID file is made to hold
PidRange == (0 - 9)..9
Numeral(n) == IF n < 0 THEN <<"-">> \o Decimal(0 - n) ELSE Decimal(n)

\* read_file is handing the text of the PID file, or an exception, to
\* _read_sshd_pid
PidReadEnds ==
    pc = "return" /\ caller = "restart_openssh_server" /\ op = "read_file"

ReadErrors ==
    {"service-not-running", "pid-file-missing-after-timeout",
     "pid-unchanged-after-timeout"}

\* C25: _read_sshd_pid returns an integer exactly when read_file returned and
\* the trimmed text is the numeral of an integer, and then that integer; in
\* every other case, a read that raised as well as a text that is no
\* numeral, it returns the one value None and raises nothing: an exception
\* that ends restart_openssh_server at that point is one of its own
\* RuntimeErrors.
C25_PidReadNeverRaises ==
    [][PidReadEnds =>
         LET got == IF rpc = "capture" THEN oldPid' ELSE newPid'
             parses == \E n \in PidRange : Numeral(n) = Strip(data)
         IN  /\ got.present <=> (pend.kind = "ret" /\ parses)
             /\ got.present => Numeral(got.value) = Strip(data)
             /\ ~got.present => got = PidNone
             /\ rres'.kind = "exc" => rres'.type \in ReadErrors]_vars

\* C25 witness: a poll whose read returned a text that is no numeral, after
\* an earlier poll that came back absent
C25_Witness ==
    /\ PidReadEnds
    /\ rpc = "polling"
    /\ pend.kind = "ret"
    /\ data = <<"x">>
    /\ sawAbsent

\* C26 (as claimed): every PID that restart_openssh_server captured or read
\* while polling is absent or a non-negative integer.
C26_PidUnsigned ==
    /\ oldPid.present => oldPid.value >= 0
    /\ newPid.present => newPid.value >= 0

----------------------------------------------------------------------------
\* Tcpkgman.run: the command line, one action per call that run or
\* _add_remote_interactive makes.  The parsed arguments are the inputs; the
\* outcome of every call is drawn from what the callee can do.

nonCliVars == <<opVars, keyVars, restartVars, bootVars, addrVars, sshVars, sideVars>>

\* Longest TcPkg command tried
MaxArgs == 2

\* The words a TcPkg command is made of
CommandWords == {"install", "pkg1"}

\* The argument lists parse_known_args can leave over
CommandLines == UNION {[1..n -> CommandWords] : n \in 0..MaxArgs}

RemoteFlagValues == {Unset, "", "flagplc"}
RemoteEnvValues == {Unset, "envplc"}
RemoteAddValues == {Unset, "", "newplc"}
RemoteRemoveValues == {Unset, "oldplc"}

\* The name typed at the "Remote name" prompt
PromptedName == "typedplc"

\* Python's truth value of an optional string
Truthy(v) == v # Unset /\ v # ""

\* args.remote after the lines "if not args.remote: args.remote = environ.get"
ResolveRemote_envFirst(flag, env) == IF Truthy(env) THEN env ELSE flag
ResolveRemote(flag, env) == IF Truthy(flag) THEN flag ELSE env

\* needs_tcpkg
NeedsTcpkg ==
    Truthy(argAdd) \/ Truthy(argRemove) \/ argList \/ remaining # <<>>

\* One call made by run: the callee, the command line it hands to
\* subprocess.run (empty when it starts no process), and how it ended
Called(name, argv, out) == [call |-> name, argv |-> argv, out |-> out]

\* The command line of Tcpkg.run_with_remote
RunWithRemoteArgv(remote_name, commands) ==
    <<"TcPkg">> \o commands \o <<"-r", remote_name>>

\* The command lines of the other Tcpkg functions; add_remote's stops after
\* the name, the collected parameters are not modelled
WhereArgv == <<"where", "TcPkg">>
RemoteListArgv == <<"TcPkg", "remote", "list">>
RemoteRemoveArgv(remote_name) == <<"TcPkg", "remote", "remove", remote_name>>
RemoteAddArgv(remote_name) == <<"TcPkg", "remote", "add", "-n", remote_name>>

\* Exit codes TcPkg can end with
TcPkgReturnCodes == {0, 3}

\* The except clauses of run: KeyboardInterrupt -> sys.exit(130), any other
\* Exception -> Utils.error -> sys.exit(1)
ExitCodeFor_alwaysOne(e) == 1
ExitCodeFor(e) == IF e = "KeyboardInterrupt" THEN 130 ELSE 1

\* An exception leaves the try body
CliRaise(e) ==
    /\ cpc' = "done"
    /\ cexc' = e
    /\ exitCode' = ExitCodeFor(e)

\* sys.exit(code) inside the try body: SystemExit is no Exception and passes
\* both except clauses
CliExit(code) ==
    /\ cpc' = "done"
    /\ exitCode' = code
    /\ UNCHANGED cexc

\* run returns, main returns, the interpreter exits with 0
CliReturn == CliExit(0)

\* The call returned and run goes on at position next
CliGoOn(next) ==
    /\ cpc' = next
    /\ UNCHANGED <<exitCode, cexc>>

\* Whether the pass-through path calls _add_remote_interactive
NeedsAdd_always(exists) == TRUE
NeedsAdd(exists) == ~exists

\* parse_known_args and the fallback to TCPKG_REMOTE
CliParse ==
    /\ cpc = "parse"
    /\ remote' = ResolveRemote(argRemote, envRemote)
    /\ cliLog' = Append(cliLog, Called("parse_known_args", <<>>, "ok"))
    /\ CliGoOn(IF NeedsTcpkg THEN "check_tcpkg" ELSE "dispatch")
    /\ UNCHANGED <<inputVars, addName, skipConf, addRet>>
    /\ UNCHANGED nonCliVars

\* Tcpkg.check_tcpkg_installed
CliCheckTcpkg ==
    /\ cpc = "check_tcpkg"
    /\ \E out \in {"ok", "RuntimeError", "KeyboardInterrupt"} :
        /\ cliLog' = Append(cliLog, Called("check_tcpkg_installed", WhereArgv, out))
        /\ IF out = "ok" THEN CliGoOn("dispatch") ELSE CliRaise(out)
    /\ UNCHANGED <<inputVars, remote, addName, skipConf, addRet>>
    /\ UNCHANGED nonCliVars

\* The chain of ifs of run that picks what to do
CliDispatch ==
    /\ cpc = "dispatch"
    /\ CliGoOn(IF argInit THEN "ssh_init"
               ELSE IF argAdd # Unset
                    THEN (IF Truthy(argAdd) THEN "add_exists" ELSE "add_prompt")
               ELSE IF Truthy(argRemove) THEN "remove_admin"
               ELSE IF argList THEN "list"
               ELSE IF remaining = <<>> THEN "help"
               ELSE IF ~Truthy(remote) THEN "no_remote"
               ELSE "exists")
    /\ addName' = IF ~argInit /\ Truthy(argAdd) THEN argAdd ELSE addName
    /\ UNCHANGED <<inputVars, remote, skipConf, addRet, cliLog>>
    /\ UNCHANGED nonCliVars

\* --remote-ssh-init: self._ssh_init_interactive(); return
CliSshInit ==
    /\ cpc = "ssh_init"
    /\ \E out \in {"ok", "RuntimeError", "KeyboardInterrupt"} :
        /\ cliLog' = Append(cliLog, Called("_ssh_init_interactive", <<>>, out))
        /\ IF out = "ok" THEN CliReturn ELSE CliRaise(out)
    /\ UNCHANGED <<inputVars, remote, addName, skipConf, addRet>>
    /\ UNCHANGED nonCliVars

\* --remote-add without a name: Utils.prompt("Remote name", None, True)
CliAddPrompt ==
    /\ cpc = "add_prompt"
    /\ \E out \in {"ok", "ValueError", "KeyboardInterrupt"} :
        /\ cliLog' = Append(cliLog, Called("prompt", <<>>, out))
        /\ IF out = "ok"
           THEN addName' = PromptedName /\ CliGoOn("add_exists")
           ELSE UNCHANGED addName /\ CliRaise(out)
    /\ UNCHANGED <<inputVars, remote, skipConf, addRet>>
    /\ UNCHANGED nonCliVars

\* --remote-add: Tcpkg.check_remote_exists(remote_name), then either the
\* message or _add_remote_interactive(remote_name, skip_confirmation=True)
CliAddExists ==
    /\ cpc = "add_exists"
    /\ \E out \in {"True", "False", "FileNotFoundError", "KeyboardInterrupt"} :
        /\ cliLog' = Append(cliLog, Called("check_remote_exists", RemoteListArgv, out))
        /\ IF out = "True"
           THEN CliReturn /\ UNCHANGED <<skipConf, addRet>>
           ELSE IF out = "False"
           THEN /\ CliGoOn("add_confirm")
                /\ skipConf' = TRUE
                /\ addRet' = "return"
           ELSE CliRaise(out) /\ UNCHANGED <<skipConf, addRet>>
    /\ UNCHANGED <<inputVars, remote, addName>>
    /\ UNCHANGED nonCliVars

\* --remote-remove: Utils.check_admin_privileges()
CliRemoveAdmin ==
    /\ cpc = "remove_admin"
    /\ \E out \in {"ok", "RuntimeError"} :
        /\ cliLog' = Append(cliLog, Called("check_admin_privileges", <<>>, out))
        /\ IF out = "ok" THEN CliGoOn("remove") ELSE CliRaise(out)
    /\ UNCHANGED <<inputVars, remote, addName, skipConf, addRet>>
    /\ UNCHANGED nonCliVars

\* --remote-remove: Tcpkg.remove_remote(args.remote_remove); return
CliRemove ==
    /\ cpc = "remove"
    /\ \E out \in {"ok", "RuntimeError", "KeyboardInterrupt"} :
        /\ cliLog' = Append(cliLog, Called("remove_remote", RemoteRemoveArgv(argRemove), out))
        /\ IF out = "ok" THEN CliReturn ELSE CliRaise(out)
    /\ UNCHANGED <<inputVars, remote, addName, skipConf, addRet>>
    /\ UNCHANGED nonCliVars

\* --remote-list: Tcpkg.list_remotes(); return
CliList ==
    /\ cpc = "list"
    /\ \E out \in {"ok", "FileNotFoundError", "KeyboardInterrupt"} :
        /\ cliLog' = Append(cliLog, Called("list_remotes", RemoteListArgv, out))
        /\ IF out = "ok" THEN CliReturn ELSE CliRaise(out)
    /\ UNCHANGED <<inputVars, remote, addName, skipConf, addRet>>
    /\ UNCHANGED nonCliVars

\* No command: self.parser.print_help(); sys.exit(0)
CliHelp ==
    /\ cpc = "help"
    /\ cliLog' = Append(cliLog, Called("print_help", <<>>, "ok"))
    /\ CliExit(0)
    /\ UNCHANGED <<inputVars, remote, addName, skipConf, addRet>>
    /\ UNCHANGED nonCliVars

\* A command and no remote: Utils.error("--remote or TCPKG_REMOTE required")
CliNoRemote ==
    /\ cpc = "no_remote"
    /\ cliLog' = Append(cliLog, Called("error", <<>>, "SystemExit"))
    /\ CliExit(1)
    /\ UNCHANGED <<inputVars, remote, addName, skipConf, addRet>>
    /\ UNCHANGED nonCliVars

\* Pass-through: if not Tcpkg.check_remote_exists(args.remote):
\*                   self._add_remote_interactive(args.remote)
CliExists ==
    /\ cpc = "exists"
    /\ \E out \in {"True", "False", "FileNotFoundError", "KeyboardInterrupt"} :
        /\ cliLog' = Append(cliLog, Called("check_remote_exists", RemoteListArgv, out))
        /\ IF out \in {"True", "False"}
           THEN IF NeedsAdd(out = "True")
                THEN /\ CliGoOn("add_confirm")
                     /\ addName' = remote
                     /\ skipConf' = FALSE
                     /\ addRet' = "run"
                ELSE CliGoOn("run") /\ UNCHANGED <<addName, skipConf, addRet>>
           ELSE CliRaise(out) /\ UNCHANGED <<addName, skipConf, addRet>>
    /\ UNCHANGED <<inputVars, remote>>
    /\ UNCHANGED nonCliVars

\* _add_remote_interactive: the question "Add it now? (y/n)" unless
\* skip_confirmation; any answer but y raises RuntimeError
CliAddConfirm ==
    /\ cpc = "add_confirm"
    /\ IF skipConf
       THEN /\ cliLog' = Append(cliLog, Called("_add_remote_interactive", <<>>, "start"))
            /\ CliGoOn("add_admin")
       ELSE \E out \in {"y", "n", "KeyboardInterrupt"} :
            /\ cliLog' = cliLog \o <<Called("_add_remote_interactive", <<>>, "start"),
                                     Called("input", <<>>, out)>>
            /\ IF out = "y" THEN CliGoOn("add_admin")
               ELSE IF out = "n" THEN CliRaise("RuntimeError")
               ELSE CliRaise(out)
    /\ UNCHANGED <<inputVars, remote, addName, skipConf, addRet>>
    /\ UNCHANGED nonCliVars

\* _add_remote_interactive: Utils.check_admin_privileges()
CliAddAdmin ==
    /\ cpc = "add_admin"
    /\ \E out \in {"ok", "RuntimeError"} :
        /\ cliLog' = Append(cliLog, Called("check_admin_privileges", <<>>, out))
        /\ IF out = "ok" THEN CliGoOn("add_collect") ELSE CliRaise(out)
    /\ UNCHANGED <<inputVars, remote, addName, skipConf, addRet>>
    /\ UNCHANGED nonCliVars

\* _add_remote_interactive: self._collect_remote_parameters(remote_name)
CliAddCollect ==
    /\ cpc = "add_collect"
    /\ \E out \in {"ok", "ValueError", "KeyboardInterrupt"} :
        /\ cliLog' = Append(cliLog, Called("_collect_remote_parameters", <<>>, out))
        /\ IF out = "ok" THEN CliGoOn("add_ssh_setup") ELSE CliRaise(out)
    /\ UNCHANGED <<inputVars, remote, addName, skipConf, addRet>>
    /\ UNCHANGED nonCliVars

\* _add_remote_interactive: if not self._check_ssh_setup(...)
CliAddSshSetup ==
    /\ cpc = "add_ssh_setup"
    /\ \E out \in {"True", "False", "FileNotFoundError", "KeyboardInterrupt"} :
        /\ cliLog' = Append(cliLog, Called("_check_ssh_setup", <<>>, out))
        /\ IF out = "True" THEN CliGoOn("add_remote")
           ELSE IF out = "False" THEN CliGoOn("add_offer")
           ELSE CliRaise(out)
    /\ UNCHANGED <<inputVars, remote, addName, skipConf, addRet>>
    /\ UNCHANGED nonCliVars

AfterSetup_onlyWhenSetUp(out) == IF out = "ok" THEN "add_remote" ELSE "add_left"

\* _add_remote_interactive: Tcpkg.add_remote is the statement after the
\* "if not self._check_ssh_setup(...)" block, however the block was left
AfterSetup(out) == "add_remote"

\* _add_remote_interactive: if self._offer_ssh_init_via_ads()
CliAddOffer ==
    /\ cpc = "add_offer"
    /\ \E out \in {"y", "n", "KeyboardInterrupt"} :
        /\ cliLog' = Append(cliLog, Called("_offer_ssh_init_via_ads", <<>>, out))
        /\ IF out = "y" THEN CliGoOn("add_ssh_init")
           ELSE IF out = "n" THEN CliGoOn(AfterSetup(out))
           ELSE CliRaise(out)
    /\ UNCHANGED <<inputVars, remote, addName, skipConf, addRet>>
    /\ UNCHANGED nonCliVars

\* _add_remote_interactive: self._ssh_init_interactive(), which returns
\* after its work ("ok") or early, when the user declines to generate a key
\* or to go on ("cancelled"), or raises
CliAddSshInit ==
    /\ cpc = "add_ssh_init"
    /\ \E out \in {"ok", "cancelled", "RuntimeError", "KeyboardInterrupt"} :
        /\ cliLog' = Append(cliLog, Called("_ssh_init_interactive", <<>>, out))
        /\ IF out \in {"ok", "cancelled"}
           THEN CliGoOn(AfterSetup(out))
           ELSE CliRaise(out)
    /\ UNCHANGED <<inputVars, remote, addName, skipConf, addRet>>
    /\ UNCHANGED nonCliVars

\* _add_remote_interactive: Tcpkg.add_remote(remote_name, ...), and the
\* return to run: to its "return" after --remote-add, to run_with_remote on
\* the pass-through path
CliAddRemote ==
    /\ cpc = "add_remote"
    /\ \E out \in {"ok", "RuntimeError", "KeyboardInterrupt"} :
        /\ cliLog' = Append(cliLog, Called("add_remote", RemoteAddArgv(addName), out))
        /\ IF out = "ok"
           THEN IF addRet = "return" THEN CliReturn ELSE CliGoOn("run")
           ELSE CliRaise(out)
    /\ UNCHANGED <<inputVars, remote, addName, skipConf, addRet>>
    /\ UNCHANGED nonCliVars

\* Tcpkg.run_with_remote(args.remote, remaining): the TcPkg command, and
\* sys.exit with its return code when that is not 0
CliRunWithRemote ==
    /\ cpc = "run"
    /\ \/ \E rc \in TcPkgReturnCodes :
            /\ cliLog' = Append(cliLog, Called("run_with_remote",
                                   RunWithRemoteArgv(remote, remaining), "returned"))
            /\ IF rc # 0 THEN CliExit(rc) ELSE CliReturn
       \/ \E out \in {"FileNotFoundError", "KeyboardInterrupt"} :
            /\ cliLog' = Append(cliLog, Called("run_with_remote",
                                   RunWithRemoteArgv(remote, remaining), out))
            /\ CliRaise(out)
    /\ UNCHANGED <<inputVars, remote, addName, skipConf, addRet>>
    /\ UNCHANGED nonCliVars

InitCli ==
    /\ OpsUnused
    /\ KeyUnused
    /\ RestartUnused
    /\ BootUnused
    /\ AddrUnused
    /\ SshUnused
    /\ SideUnused
    /\ argRemote \in RemoteFlagValues
    /\ envRemote \in RemoteEnvValues
    /\ argAdd \in RemoteAddValues
    /\ argRemove \in RemoteRemoveValues
    /\ argList \in BOOLEAN
    /\ argInit \in BOOLEAN
    /\ remaining \in CommandLines
    /\ cpc = "parse"
    /\ remote = Unset
    /\ addName = Unset
    /\ skipConf = FALSE
    /\ addRet = "none"
    /\ cliLog = <<>>
    /\ exitCode = 0 - 1
    /\ cexc = "none"

NextCli ==
    \/ CliParse
    \/ CliCheckTcpkg
    \/ CliDispatch
    \/ CliSshInit
    \/ CliAddPrompt
    \/ CliAddExists
    \/ CliRemoveAdmin
    \/ CliRemove
    \/ CliList
    \/ CliHelp
    \/ CliNoRemote
    \/ CliExists
    \/ CliAddConfirm
    \/ CliAddAdmin
    \/ CliAddCollect
    \/ CliAddSshSetup
    \/ CliAddOffer
    \/ CliAddSshInit
    \/ CliAddRemote
    \/ CliRunWithRemote

SpecCli == InitCli /\ [][NextCli]_vars

----------------------------------------------------------------------------
\* Properties of Tcpkgman.run

CliDone == cpc = "done"
CliParsed == cpc \notin {"unused", "parse"}

\* One of the options that run handles before any command was given
Management == argInit \/ argAdd # Unset \/ Truthy(argRemove) \/ argList

\* The invocation is a TcPkg command to be passed through
PassThrough == ~Management /\ remaining # <<>>

LoggedCalls(name) == {i \in 1..Len(cliLog) : cliLog[i].call = name}

\* The processes started whose executable is TcPkg
TcPkgCommands ==
    {i \in 1..Len(cliLog) : cliLog[i].argv # <<>> /\ cliLog[i].argv[1] = "TcPkg"}

Interrupted == cexc = "KeyboardInterrupt"

\* C27: once the arguments are parsed the remote is the value of --remote
\* when one was given (a non-empty value) and the value of TCPKG_REMOTE
\* otherwise; a pass-through invocation with neither starts no TcPkg process
\* and, unless interrupted from the keyboard, ends with exit code 1; every
\* command line of run_with_remote is TcPkg, the command arguments unchanged
\* and in order, then -r and the resolved remote.
C27_RemoteResolution ==
    /\ CliParsed =>
        /\ Truthy(argRemote) => remote = argRemote
        /\ ~Truthy(argRemote) => remote = envRemote
    /\ (PassThrough /\ ~Truthy(argRemote) /\ ~Truthy(envRemote)) =>
        /\ TcPkgCommands = {}
        /\ (CliDone /\ ~Interrupted) => exitCode = 1
    /\ \A i \in LoggedCalls("run_with_remote") :
        LET argv == cliLog[i].argv
            n == Len(remaining)
        IN  /\ Len(argv) = n + 3
            /\ argv[1] = "TcPkg"
            /\ \A k \in 1..n : argv[k + 1] = remaining[k]
            /\ argv[n + 2] = "-r"
            /\ argv[n + 3] = (IF Truthy(argRemote) THEN argRemote ELSE envRemote)

\* A two-word command was passed to TcPkg with the remote of TCPKG_REMOTE
C27_Witness ==
    /\ CliDone
    /\ LoggedCalls("run_with_remote") # {}
    /\ ~Truthy(argRemote)
    /\ remaining = <<"install", "pkg1">>
    /\ exitCode = 0

\* C28: on the pass-through path _add_remote_interactive is called exactly
\* once, after check_remote_exists answered False and before the TcPkg
\* command, and not at all after it answered True; with --remote-add, after
\* check_remote_exists answered True neither _add_remote_interactive nor
\* Tcpkg.add_remote is called.
C28_AutoAdd ==
    LET adds == LoggedCalls("_add_remote_interactive")
        answered(t) == {i \in LoggedCalls("check_remote_exists") : cliLog[i].out = t}
    IN  /\ Cardinality(adds) <= 1
        /\ PassThrough =>
            /\ answered("True") # {} => adds = {}
            /\ (answered("False") # {} /\ cpc # "add_confirm") =>
                   Cardinality(adds) = 1
            /\ \A r \in LoggedCalls("run_with_remote") :
                /\ \E c \in LoggedCalls("check_remote_exists") :
                    /\ c < r
                    /\ cliLog[c].out \in {"True", "False"}
                    /\ cliLog[c].out = "False" =>
                        \E a \in adds : c < a /\ a < r
                /\ \A a \in adds : a < r
        /\ (~argInit /\ argAdd # Unset /\ answered("True") # {}) =>
            /\ adds = {}
            /\ LoggedCalls("add_remote") = {}
            /\ CliDone /\ exitCode = 0

\* A missing remote was added on the way and the TcPkg command then ran
C28_Witness ==
    /\ CliDone
    /\ PassThrough
    /\ LoggedCalls("_add_remote_interactive") # {}
    /\ LoggedCalls("add_remote") # {}
    /\ LoggedCalls("run_with_remote") # {}

\* C29: a finished run has an exit code: 130 when a call raised
\* KeyboardInterrupt, 1 when a call raised any other exception, and 0 with
\* print_help as the last call when neither a command nor a management
\* option was given.
C29_NoEscape ==
    CliDone =>
        /\ exitCode >= 0
        /\ Interrupted => exitCode = 130
        /\ cexc \notin {"none", "KeyboardInterrupt"} => exitCode = 1
        /\ (~Management /\ remaining = <<>>) =>
            /\ exitCode = 0
            /\ cliLog[Len(cliLog)].call = "print_help"

\* The TcPkg command itself was interrupted from the keyboard
C29_Witness ==
    /\ CliDone
    /\ Interrupted
    /\ cliLog[Len(cliLog)].call = "run_with_remote"
    /\ exitCode = 130

----------------------------------------------------------------------------
\* Properties of copy_ssh_key when the remote file cannot be read

\* C31: when read_file raised, copy_ssh_key goes on to exactly one write_file
\* call whose content is the trimmed local key and a newline, without having
\* ended; it ends with an exception only when that write_file call (or, the
\* remote file never being reached, the read of the local key) raised.
C31_ReadFailureNotFatal ==
    [][/\ (kpc = "reading" /\ kpc' # "reading" /\ pend.kind = "exc") =>
            /\ kpc' = "writing"
            /\ op' = "write_file"
            /\ writeCalls = 0 /\ writeCalls' = 1
            /\ written' = Strip(localKey) \o <<NL>>
            /\ kres' = NoPend
       /\ (kpc = "writing" /\ kpc' # "writing") =>
            /\ kpc' = "done"
            /\ op = "write_file"
            /\ writeCalls' = writeCalls
            /\ kres'.kind = pend.kind
            /\ kres'.kind = "exc" => kres' = pend
      ]_vars

\* The read failed on a missing file and the write then installed the key
C31_Witness ==
    /\ kpc = "done"
    /\ authKeys0 = Absent
    /\ existing = None
    /\ writeCalls = 1
    /\ kres.kind = "ret"
    /\ localKey # Absent
    /\ authKeys = Strip(localKey) \o <<NL>>

----------------------------------------------------------------------------
\* Properties of a repeated copy_ssh_key

SecondCallDone == kcalls = 1 /\ kpc = "done"

\* C32 (as claimed): a second call of copy_ssh_key with the same local key,
\* made after the first returned and itself reading the remote file and
\* returning without error, makes no write_file call and leaves the remote
\* authorized-keys content as the first call left it.
C32_SecondCallWritesNothing ==
    (SecondCallDone /\ kres.kind = "ret" /\ ReadOk) =>
        /\ writeCalls = 0
        /\ authKeys = authKeys0

----------------------------------------------------------------------------
\* Properties of what restart_openssh_server touches

\* The three RuntimeErrors of the PID-based verification
RestartFailures ==
    {"service-not-running", "pid-file-missing-after-timeout",
     "pid-unchanged-after-timeout"}

\* How copy_ssh_key can fail
KeyFailures ==
    {Exc("FileNotFoundError", 0), Exc("ValueError", 0), Exc("struct.error", 0)}
    \cup {Exc("ADSError", c) : c \in ErrCodes \cup {0}}

\* An open of a file for writing, or a write of file data
WritesFile(e) ==
    \/ e.group = SYSTEMSERVICE_FWRITE
    \/ IsFileOpen(e) /\ (HasFlag(e.offset, FOPEN_WRITE) \/ HasFlag(e.offset, FOPEN_OVERWRITE))

\* C33: while restart_openssh_server runs, the operations it starts are reads
\* of the PID file and at most one run_command; no DLL call opens a file for
\* writing or writes file data, the only write exchanges being the closes of
\* the PID file and the one start-process write; the authorized-keys content
\* never changes; and a failed verification ends with one of the three
\* restart errors, which _ssh_init_interactive reports as it is and which no
\* failure of copy_ssh_key is reported as.
C33_RestartWritesNoFile ==
    [][rpc # "unused" =>
        /\ authKeys' = authKeys
        /\ op' \in {"none", "read_file", "run_command"}
        /\ op' = "read_file" => args'.path = PID_FILE_PATH
        /\ restarts' <= 1
        /\ \A i \in 1..Len(trace') :
            /\ ~WritesFile(trace'[i])
            /\ trace'[i].call = "write" =>
                \/ IsFileClose(trace'[i]) /\ op' = "read_file"
                \/ /\ trace'[i].group = SYSTEMSERVICE_STARTPROCESS
                   /\ op' = "run_command"
                   /\ \A j \in 1..Len(trace') :
                        (trace'[j].call = "write") => j = i
        /\ (rpc' = "done" /\ rres'.kind = "exc" /\ rexit' # "command") =>
            /\ rres'.type \in RestartFailures
            /\ MapBootError(rres') = rres'
            /\ \A k \in KeyFailures : MapBootError(k) # rres'
      ]_vars

\* The verification timed out with the PID unchanged, the key file untouched
C33_Witness ==
    /\ RestartDone
    /\ rres = Exc("pid-unchanged-after-timeout", 0)
    /\ restarts = 1
    /\ sleeps >= 1
    /\ authKeys = <<"a", NL>>

----------------------------------------------------------------------------
\* Properties of the termination of restart_openssh_server

\* An upper bound of the DLL calls and returns the operation in progress
\* still has to make
OpStepsLeft ==
    CASE pc = "port_open" -> 7
      [] pc = "addr" -> 6
      [] pc = "fopen" -> 5
      [] pc \in {"fdata", "fstatus", "startproc", "read_state"} -> 4
      [] pc = "unwind" -> Len(cleanup) + 1
      [] OTHER -> 0

\* An upper bound of the steps restart_openssh_server itself still has to
\* make: three per poll that is left, two for the final read
RestartStepsLeft ==
    LET pollsLeft == IF polls < timeoutMs \div 1000
                     THEN timeoutMs \div 1000 - polls ELSE 0
        loop == 3 * pollsLeft + 2
    IN  CASE rpc = "start" -> 3 * (timeoutMs \div 1000) + 5
          [] rpc = "capture" -> 3 * (timeoutMs \div 1000) + 4
          [] rpc = "command" -> 3 * (timeoutMs \div 1000) + 3
          [] rpc = "loop" -> loop
          [] rpc = "slept" -> loop - 1
          [] rpc = "polling" -> loop - 2
          [] rpc = "final" -> 1
          [] OTHER -> 0

StepsLeft == 8 * RestartStepsLeft + OpStepsLeft

\* C34: restart_openssh_server terminates: whenever it is in control (no
\* operation in progress, or one that just returned) and has not ended, it
\* has a next step, and every step lowers a natural number, whatever the
\* PID file holds and whichever exchange fails; it makes at most
\* timeout_ms div 1000 sleeps and timeout_ms div 1000 + 2 PID reads; the
\* restart command having been accepted, it ends by returning 0 or with one
\* of the three restart errors.
C34_RestartTerminates ==
    /\ []((~RestartDone /\ pc \in {"idle", "return"}) => ENABLED RestartSteps)
    /\ [][/\ StepsLeft' < StepsLeft
          /\ StepsLeft' >= 0
          /\ RestartDone' <=> StepsLeft' = 0
          /\ sleeps' <= timeoutMs \div 1000
          /\ pidReads' <= timeoutMs \div 1000 + 2
          /\ (RestartDone' /\ rexit' # "command") =>
                \/ rres' = Ret("0")
                \/ rres'.kind = "exc" /\ rres'.type \in RestartFailures
         ]_vars

\* The longest run: every poll and the final read were made
C34_Witness ==
    /\ RestartDone
    /\ timeoutMs \div 1000 = MaxTimeoutS
    /\ sleeps = MaxTimeoutS
    /\ pidReads = MaxTimeoutS + 2

----------------------------------------------------------------------------
\* Properties of the conversion of ADSError by _ssh_init_interactive

\* What the call the bootstrap is waiting for has ended with
StepOutcome ==
    CASE bpc = "check" -> pend
      [] bpc = "copy" -> kres
      [] bpc = "restart" -> rres
      [] OTHER -> NoPend

\* C35: when check_connection, copy_ssh_key or restart_openssh_server ends
\* with an ADSError, _ssh_init_interactive ends with a RuntimeError chosen by
\* the code alone: target-not-found for 0x7, target-timeout for 0x745, the
\* generic ADS error for every other code; it never ends with an ADSError.
C35_AdsErrorConverted ==
    [][/\ bres'.type # "ADSError"
       /\ (bpc # "done" /\ bpc' = "done" /\ StepOutcome.kind = "exc"
           /\ StepOutcome.type = "ADSError") =>
            /\ bres'.kind = "exc"
            /\ StepOutcome.code = 7 => bres' = Exc("target-not-found", 0)
            /\ StepOutcome.code = 1861 => bres' = Exc("target-timeout", 0)
            /\ StepOutcome.code \notin {7, 1861} =>
                 bres' = Exc("ads-error", StepOutcome.code)
      ]_vars

\* The restart command was answered with 0x745 and the bootstrap ended with
\* the timeout message
C35_Witness ==
    /\ BootDone
    /\ rexit = "command"
    /\ rres = Exc("ADSError", 1861)
    /\ bres = Exc("target-timeout", 0)

----------------------------------------------------------------------------
\* Properties of the restart after the key copy

CopyReturned == bpc = "copy" /\ kpc = "done" /\ kres.kind = "ret"

\* C39: the step that follows a copy_ssh_key that returned starts
\* restart_openssh_server, with the default timeout, whether copy_ssh_key
\* wrote the key or found it present; the PID-based verification and, when
\* it succeeds, check_ssh_connection then run as after a write.
C39_RestartAfterEveryCopy ==
    [][/\ (CopyReturned /\ bpc' # bpc) =>
            /\ bpc' = "restart"
            /\ rpc' = "start"
            /\ timeoutMs' = DefaultRestartTimeoutMs
            /\ bootLog'[Len(bootLog')] = Step("restart_openssh_server", "start")
       /\ (bpc = "restart" /\ bpc' # bpc) =>
            /\ rpc = "done"
            /\ pidReads >= 1
            /\ IF rres = Ret("0")
               THEN bpc' = "ssh" /\ spc' = "loop" /\ restarts = 1
               ELSE bpc' = "done" /\ bres'.kind = "exc"
       /\ (bpc' = "ssh" \/ (bpc' = "done" /\ bres'.type \in {"ssh-ok", "ssh-failed"})) =>
            /\ kres.kind = "ret"
            /\ restarts = 1
            /\ rres = Ret("0")
      ]_vars

\* The key was already present: no write, one restart, SSH checked
C39_Witness ==
    /\ BootDone
    /\ kres.kind = "ret"
    /\ existing # None
    /\ writeCalls = 0
    /\ restarts = 1
    /\ rres = Ret("0")
    /\ bres = Ret("ssh-ok")

----------------------------------------------------------------------------
\* Properties of the read of the PID after the timeout

\* C37: when the read made after the last poll yields a PID that differs
\* from the captured one, restart_openssh_server returns 0 and raises
\* nothing, although every read in the loop missed the change.
C37_LateChangeSucceeds ==
    [][(rpc = "final" /\ rpc' = "done") =>
         /\ polls = TimeoutS(timeoutMs)
         /\ \/ ~(newPid'.present /\ newPid' # oldPid)
            \/ /\ rres' = Ret("0")
               /\ rexit' = "final"
               /\ oldPid.present
               /\ restarts = 1
               /\ sleeps = timeoutMs \div 1000
               /\ pidReads = timeoutMs \div 1000 + 2
      ]_vars

\* C37 witness: two polls that saw no change, then a final read that did
C37_Witness ==
    /\ RestartDone
    /\ rexit = "final"
    /\ polls = 2
    /\ newPid.present
    /\ newPid # oldPid
    /\ rres = Ret("0")

----------------------------------------------------------------------------
\* Properties of a timeout below one second

ShortTimeout == timeoutMs < 1000

\* C38: with timeout_ms below 1000 no sleep is made and no read is made in
\* the loop; exactly one PID read follows the restart command and it alone
\* decides between returning 0 and the two timeout failures.
C38_ShortTimeoutOneRead ==
    [][ShortTimeout =>
         /\ sleeps' = 0
         /\ slept' = 0
         /\ polls' = 0
         /\ rexit' # "poll"
         /\ pidReads' <= 2
         /\ (rpc = "loop" /\ rpc' # rpc) => (rpc' = "final" /\ pidReads' = 2)
         /\ (RestartDone' /\ rexit' = "final") =>
              /\ pidReads' = 2
              /\ restarts' = 1
              /\ rres' = IF ~newPid'.present
                         THEN Exc("pid-file-missing-after-timeout", 0)
                         ELSE IF newPid' = oldPid'
                         THEN Exc("pid-unchanged-after-timeout", 0)
                         ELSE Ret("0")
      ]_vars

\* C38 witness: a timeout of 999 ms whose single read found a new PID
C38_Witness ==
    /\ RestartDone
    /\ timeoutMs = 999
    /\ rexit = "final"
    /\ sleeps = 0
    /\ pidReads = 2
    /\ rres = Ret("0")

----------------------------------------------------------------------------
\* Properties of _add_remote_interactive

ExceptionNames ==
    {"RuntimeError", "ValueError", "FileNotFoundError", "KeyboardInterrupt"}
AddPositions ==
    {"add_confirm", "add_admin", "add_collect", "add_ssh_setup", "add_offer",
     "add_ssh_init", "add_remote"}
StepsBeforeAdd ==
    {"check_admin_privileges", "_collect_remote_parameters", "_check_ssh_setup",
     "_offer_ssh_init_via_ads", "_ssh_init_interactive"}

\* The calls _add_remote_interactive made before Tcpkg.add_remote that
\* raised, the answer other than y to its question included
RaisedBeforeAdd ==
    {i \in 1..Len(cliLog) :
        /\ \E s \in LoggedCalls("_add_remote_interactive") : s < i
        /\ \/ cliLog[i].call \in StepsBeforeAdd /\ cliLog[i].out \in ExceptionNames
           \/ cliLog[i].call = "input" /\ cliLog[i].out # "y"}

\* C40: once _add_remote_interactive has been left, Tcpkg.add_remote was
\* called exactly once when none of the calls before it raised, whatever
\* _check_ssh_setup answered, whether the ADS setup was declined or returned
\* early; it was not called when one of them raised.
C40_AddRemoteOnce ==
    LET adds == LoggedCalls("add_remote")
        started == LoggedCalls("_add_remote_interactive")
    IN  /\ Cardinality(adds) <= 1
        /\ \A a \in adds : \E s \in started : s < a
        /\ RaisedBeforeAdd # {} => adds = {}
        /\ (started # {} /\ cpc \notin AddPositions /\ RaisedBeforeAdd = {}) =>
              Cardinality(adds) = 1
        /\ \A i \in 1..Len(cliLog) :
              \/ /\ cliLog[i].call = "_offer_ssh_init_via_ads"
                 /\ cliLog[i].out = "n"
              \/ /\ cliLog[i].call = "_ssh_init_interactive"
                 /\ cliLog[i].out \in {"ok", "cancelled"}
                 /\ started # {}
              => \/ cpc = "add_remote" /\ adds = {}
                 \/ adds = {i + 1}

\* C40 witness: the SSH check failed, the ADS setup was accepted and then
\* returned early, and the remote was added
C40_Witness ==
    /\ CliDone
    /\ \E i \in LoggedCalls("_check_ssh_setup") : cliLog[i].out = "False"
    /\ \E i \in LoggedCalls("_ssh_init_interactive") : cliLog[i].out = "cancelled"
    /\ \E i \in LoggedCalls("add_remote") : cliLog[i].out = "ok"
    /\ exitCode = 0

----------------------------------------------------------------------------
\* Properties of two interleaved ADSInterface operations

OtherIndices == 1..Len(otrace)
Held == port # 0 /\ ~\E i \in Indices : IsPortClose(trace[i]) /\ trace[i].ok
OtherHeld ==
    oport # 0 /\ ~\E i \in OtherIndices : otrace[i].call = "port_close" /\ otrace[i].ok

====
